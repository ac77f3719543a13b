----------------------------- MODULE LendsProofs -----------------------------
(***************************************************************************)
(* Proofs about Lends, for any number of people, amounts, days and         *)
(* requests at once: the bill and its shares add up to what it cost, what  *)
(* is shown as repaid is current and nothing is paid before it was lent,   *)
(* and forgiving leaves nobody owed by the user.                           *)
(*                                                                         *)
(* The tables are sound in parts (Kinds, ShareRows, CashRow, PaidRows,     *)
(* BillRow) and paid up in parts (CoverFits, Current, After).  First what  *)
(* each change of the tables does to either, then each request.            *)
(***************************************************************************)
EXTENDS Lends, SetLemmas

RowTypes == Plain \cup {"lend", "lend_repayment", "writeoff"}
RowSet == [type : RowTypes, amount : Nat, day : Nat]
LendSet == [who : People, principal : Nat, txn : Slots, day : Nat]
PaySet == [who : People, pin : LendIds \cup {Overall}]
CoverSet == [lend : LendIds, amount : Nat]
IsBook(b) == b = [rows |-> b.rows, lends |-> b.lends, settled |-> b.settled, covers |-> b.covers]
LendRow(lend) == [type |-> "lend", amount |-> lend.principal, day |-> lend.day]
On(lends, l, t) == lends[l] # None /\ lends[l].txn = t

Kinds(rows, lends, settled) ==
  /\ rows \in [Slots -> {None} \cup RowSet]
  /\ lends \in [LendIds -> {None} \cup LendSet]
  /\ settled \in [Slots -> {None} \cup PaySet]

ShareRows(rows, lends) ==
  \A l \in Shares : /\ lends[l] # None => lends[l].txn \in {Bill, Cut(l)} /\ rows[Bill] # None
                    /\ rows[Cut(l)] # None <=> On(lends, l, Cut(l))

CashRow(rows, lends) ==
  /\ lends[CashLend] # None => lends[CashLend].txn = CashOut /\ rows[CashOut] = LendRow(lends[CashLend])
  /\ rows[CashOut] # None => lends[CashLend] # None

PaidRows(rows, lends, settled, r) ==
  /\ \A t \in Slots : settled[t] # None =>
       /\ t \in {Bill, Credit} \cup Adjustments /\ rows[t] # None
       /\ settled[t].pin # Overall => lends[settled[t].pin] # None
       /\ t \in {Bill, Credit} \ r => rows[t].type = "lend_repayment"
  /\ \A t \in Adjustments : rows[t] # None => settled[t] # None /\ rows[t].type = "writeoff"
  /\ rows[Credit] # None => rows[Credit].type \in Plain \cup {"lend_repayment"}
  /\ rows[Bill] # None => rows[Bill].type # "writeoff"

BillRow(rows, lends, r) ==
  Bill \notin r =>
    /\ \A l \in Shares : lends[l] # None =>
         /\ rows[lends[l].txn] = LendRow(lends[l])
         /\ lends[l].txn = Cut(l) => rows[Bill].type = "expense" /\ lends[l].day = rows[Bill].day
    /\ \A l, k \in Shares : On(lends, l, Bill) /\ On(lends, k, Bill) => l = k
    /\ rows[Bill] # None /\ rows[Bill].type = "lend" => \E l \in Shares : On(lends, l, Bill)

Sound(rows, lends, settled, r) ==
  /\ Kinds(rows, lends, settled) /\ ShareRows(rows, lends) /\ CashRow(rows, lends)
  /\ PaidRows(rows, lends, settled, r) /\ BillRow(rows, lends, r)

(* A cover is of the lend its payment is pinned to, and the payer's.        *)
CoverFits(b, t) ==
  b.covers[t] # None =>
    /\ b.settled[t] # None /\ b.settled[t].pin = b.covers[t].lend
    /\ b.settled[t].pin \in Lent(b, b.settled[t].who)
Current(b, p) == \A t \in Payments(b, p) : b.covers[t] = Cover(b, t)
After(b, p, r) ==
  Lent(b, p) # {} =>
    \A t \in Payments(b, p) \ r :
      \E l \in Lent(b, p) : /\ b.settled[t].pin \in Lent(b, p) => l = b.settled[t].pin
                            /\ b.lends[l].day <= b.rows[t].day
PaidUp(b, r) ==
  /\ b.covers \in [Slots -> {None} \cup CoverSet]
  /\ \A t \in Slots : CoverFits(b, t)
  /\ \A p \in People : (Payments(b, p) \cap r = {} => Current(b, p)) /\ After(b, p, r)

-----------------------------------------------------------------------------
LEMMA SlotFacts ==
  /\ {Bill, CashOut, Credit} \cup Adjustments \subseteq Slots
  /\ Bill # CashOut /\ Bill # Credit /\ CashOut # Credit /\ {Bill, CashOut, Credit} \cap Adjustments = {}
  /\ \A l \in Shares : /\ Cut(l) \in Slots /\ Cut(l) > 5 /\ Cut(l) \notin {Bill, CashOut, Credit} \cup Adjustments
                       /\ Cut(l) - 5 = l /\ \A k \in Shares : Cut(k) = Cut(l) => k = l
  /\ LendIds = Shares \cup {CashLend} /\ CashLend \notin Shares /\ Overall \notin LendIds
  /\ \A t \in Slots : t \in {Bill, CashOut, Credit} \cup Adjustments \/ \E l \in Shares : t = Cut(l)
  /\ \A t \in Slots : t > 5 <=> \E l \in Shares : t = Cut(l)
  /\ Slots \subseteq Nat /\ LendIds \subseteq Nat /\ IsFiniteSet(Slots) /\ IsFiniteSet(LendIds) /\ IsFiniteSet(Shares)
  /\ Days \subseteq Nat /\ 1..Price \subseteq Nat
<1>1. PICK n \in Nat : n = Cardinality(People)
  BY LendsAssumption, FS_CardinalityType
<1>2. Shares = 1..n /\ CashLend = n + 1 /\ Slots = 1..(5 + n) /\ LendIds = (1..n) \cup {n + 1}
  BY <1>1 DEF Shares, CashLend, Slots, LendIds
<1>3. IsFiniteSet(1..n) /\ IsFiniteSet(1..(5 + n)) /\ IsFiniteSet((1..n) \cup {n + 1})
  <2>1. IsFiniteSet(1..n) /\ IsFiniteSet(1..(5 + n))
    BY FS_Interval
  <2>2. IsFiniteSet((1..n) \cup {n + 1})
    BY <2>1, FS_AddElement
  <2> QED
    BY <2>1, <2>2
<1>4. \A t \in Slots : t > 5 <=> \E l \in Shares : t = Cut(l)
  <2>1. ASSUME NEW t \in Slots, t > 5
        PROVE  \E l \in Shares : t = Cut(l)
    <3>1. t - 5 \in Shares /\ t = Cut(t - 5)
      BY <1>2, <2>1 DEF Cut
    <3> QED
      BY <3>1
  <2>2. \A l \in Shares : Cut(l) > 5
    BY <1>2 DEF Cut
  <2> QED
    BY <2>1, <2>2
<1>5. /\ {Bill, CashOut, Credit} \cup Adjustments \subseteq Slots
      /\ Bill # CashOut /\ Bill # Credit /\ CashOut # Credit /\ {Bill, CashOut, Credit} \cap Adjustments = {}
  BY <1>2 DEF Bill, CashOut, Credit, Adjustments
<1>6. \A l \in Shares : /\ Cut(l) \in Slots /\ Cut(l) > 5 /\ Cut(l) \notin {Bill, CashOut, Credit} \cup Adjustments
                       /\ Cut(l) - 5 = l /\ \A k \in Shares : Cut(k) = Cut(l) => k = l
  BY <1>2 DEF Cut, Bill, CashOut, Credit, Adjustments
<1>7. LendIds = Shares \cup {CashLend} /\ CashLend \notin Shares /\ Overall \notin LendIds
  BY <1>2 DEF Overall
<1>8. \A t \in Slots : t \in {Bill, CashOut, Credit} \cup Adjustments \/ t > 5
  BY <1>2 DEF Bill, CashOut, Credit, Adjustments
<1>9. Days \subseteq Nat /\ 1..Price \subseteq Nat /\ Slots \subseteq Nat /\ LendIds \subseteq Nat
  BY <1>2, LendsAssumption DEF Days
<1>10. IsFiniteSet(Slots) /\ IsFiniteSet(LendIds) /\ IsFiniteSet(Shares)
  BY <1>2, <1>3
<1> QED
  BY <1>4, <1>5, <1>6, <1>7, <1>8, <1>9, <1>10

LEMMA NoneIsNoRow == None \notin RowSet /\ None \notin LendSet /\ None \notin PaySet /\ None \notin CoverSet
<1>1. RowTypes = {"expense", "income", "refund", "lend", "lend_repayment", "writeoff"}
  BY DEF RowTypes, Plain
<1>2. Overall \in Nat
  BY DEF Overall
<1>3. None \notin RowSet
  BY <1>1, LendsAssumption DEF RowSet
<1>4. None \notin LendSet /\ None \notin PaySet /\ None \notin CoverSet
  BY <1>2, LendsAssumption, SlotFacts DEF LendSet, PaySet, CoverSet
<1> QED
  BY <1>3, <1>4

(* What a book says does not hang on its covers.                            *)
LEMMA SameSays ==
  ASSUME NEW b, NEW c, c.rows = b.rows, c.lends = b.lends, c.settled = b.settled
  PROVE  /\ \A p : Lent(c, p) = Lent(b, p) /\ Payments(c, p) = Payments(b, p)
         /\ \A t : Cover(c, t) = Cover(b, t)
<1>1. \A p : Lent(c, p) = Lent(b, p) /\ Payments(c, p) = Payments(b, p)
  BY DEF Lent, Payments
<1>2. ASSUME NEW t
      PROVE  Cover(c, t) = Cover(b, t)
  <2>1. Before(c, t) = Before(b, t)
    BY <1>1 DEF Before
  <2>2. \A T : SumOf(c, T) = SumAmounts(c.rows, T) /\ SumOf(b, T) = SumAmounts(b.rows, T)
    BY DEF SumOf, SumAmounts
  <2>3. SumOf(c, Before(c, t)) = SumOf(b, Before(b, t))
    BY <2>1, <2>2, Zenon
  <2> QED
    BY <1>1, <2>3, Zenon DEF Cover
<1> QED
  BY <1>1, <1>2

SoundBook(b, r) == Sound(b.rows, b.lends, b.settled, r)

LEMMA AmountsInt ==
  ASSUME NEW rows, NEW T, IsFiniteSet(T), \A t \in T : rows[t].amount \in Int
  PROVE  SumAmounts(rows, T) \in Int
<1>1. PICK E : E = {}
  OBVIOUS
<1>2. T \cup E = T /\ T \cap E = {}
  BY <1>1
<1>3. IsFiniteSet(T \cup E) /\ \A t \in T \cup E : rows[t].amount \in Int
  BY <1>2, Zenon
<1> QED
  BY <1>2, <1>3, AmountsJoin

LEMMA AmountsOne ==
  ASSUME NEW rows, NEW x, rows[x].amount \in Int
  PROVE  SumAmounts(rows, {x}) = rows[x].amount
<1>1. PICK T : T = {x}
  OBVIOUS
<1>2. IsFiniteSet(T)
  BY <1>1, FS_Singleton
<1>3. PICK f : f = [t \in T |-> rows[t].amount]
  OBVIOUS
<1>4. f[x] = rows[x].amount /\ \A y \in T : f[y] \in Int
  BY <1>1, <1>3
<1>5. SumAmounts(rows, T) = SumOver(f, T)
  BY <1>2, <1>3, AmountsTotal
<1>6. SumOver(f, T) = f[x] + SumOver(f, T \ {x})
  BY <1>1, <1>2, <1>4, TotalOf DEF Terms
<1>7. PICK E : E = T \ {x}
  OBVIOUS
<1>8. E = {} /\ Terms(f, E)
  BY <1>1, <1>2, <1>7, FS_EmptySet DEF Terms
<1>9. SumOver(f, E) = 0
  BY <1>8, TotalOf
<1> QED
  BY <1>1, <1>4, <1>5, <1>6, <1>7, <1>9

LEMMA MinIs ==
  /\ \A a, b \in Int : Min({a, b}) = IF a <= b THEN a ELSE b
  /\ \A S \in SUBSET Nat : S # {} => Min(S) \in S /\ \A y \in S : Min(S) <= y
<1>1. ASSUME NEW a \in Int, NEW b \in Int
      PROVE  Min({a, b}) = IF a <= b THEN a ELSE b
  <2>1. \E x \in {a, b} : \A y \in {a, b} : x =< y
    <3>1. CASE a <= b
      BY <3>1
    <3>2. CASE b <= a
      BY <3>2
    <3> QED
      BY <3>1, <3>2
  <2>2. Min({a, b}) \in {a, b} /\ \A y \in {a, b} : Min({a, b}) =< y
    BY <2>1, Zenon DEF Min
  <2>3. PICK m : m = Min({a, b})
    OBVIOUS
  <2>4. m \in {a, b} /\ m <= a /\ m <= b
    BY <2>2, <2>3
  <2>5. m = IF a <= b THEN a ELSE b
    BY <2>4
  <2> QED
    BY <2>3, <2>5
<1>2. ASSUME NEW S \in SUBSET Nat, S # {}
      PROVE  Min(S) \in S /\ \A y \in S : Min(S) <= y
  <2>1. \E x \in S : \A y \in S : x =< y
    BY <1>2, LeastNatural
  <2> QED
    BY <2>1, Zenon DEF Min
<1> QED
  BY <1>1, <1>2

(* The rows and lends of a person.                                          *)
LEMMA OnesOwn ==
  ASSUME NEW b, NEW r, SoundBook(b, r), NEW p
  PROVE  /\ Payments(b, p) \subseteq {Bill, Credit} \cup Adjustments
         /\ Payments(b, p) \subseteq Slots /\ IsFiniteSet(Payments(b, p))
         /\ \A t \in Payments(b, p) : /\ b.settled[t] \in PaySet /\ b.settled[t].who = p
                                      /\ b.rows[t] \in RowSet /\ b.rows[t].amount \in Nat /\ b.rows[t].day \in Nat
         /\ Lent(b, p) \subseteq LendIds /\ IsFiniteSet(Lent(b, p))
         /\ \A l \in Lent(b, p) : /\ b.lends[l] \in LendSet /\ b.lends[l].who = p
                                  /\ b.lends[l].principal \in Nat /\ b.lends[l].day \in Nat
<1>1. Payments(b, p) \subseteq Slots /\ Lent(b, p) \subseteq LendIds
  BY DEF Payments, Lent
<1>2. IsFiniteSet(Payments(b, p)) /\ IsFiniteSet(Lent(b, p))
  BY <1>1, SlotFacts, FS_Subset
<1>3. ASSUME NEW t \in Payments(b, p)
      PROVE  /\ b.settled[t] \in PaySet /\ b.settled[t].who = p /\ t \in {Bill, Credit} \cup Adjustments
             /\ b.rows[t] \in RowSet
  BY DEF Payments, SoundBook, Sound, Kinds, PaidRows
<1>4. \A t \in Payments(b, p) : b.rows[t].amount \in Nat /\ b.rows[t].day \in Nat
  BY <1>3 DEF RowSet
<1>5. \A l \in Lent(b, p) : b.lends[l] \in LendSet /\ b.lends[l].who = p
  BY <1>1 DEF Lent, SoundBook, Sound, Kinds
<1>6. \A l \in Lent(b, p) : b.lends[l].principal \in Nat /\ b.lends[l].day \in Nat
  BY <1>5 DEF LendSet
<1> QED
  BY <1>1, <1>2, <1>3, <1>4, <1>5, <1>6

LEMMA CoverIs ==
  ASSUME NEW b, NEW r, SoundBook(b, r), NEW p, NEW t \in Payments(b, p), NEW l, l = b.settled[t].pin
  PROVE  /\ Before(b, t) \subseteq Payments(b, p)
         /\ SumOf(b, Before(b, t)) \in Int
         /\ l \notin Lent(b, p) => Cover(b, t) = None
         /\ l \in Lent(b, p) =>
              \E rest \in Int :
                /\ rest = IF b.lends[l].principal <= SumOf(b, Before(b, t)) THEN 0
                          ELSE b.lends[l].principal - SumOf(b, Before(b, t))
                /\ Cover(b, t) = IF rest > 0 THEN [lend |-> l, amount |-> IF rest <= b.rows[t].amount THEN rest ELSE b.rows[t].amount]
                                 ELSE None
<1>1. b.settled[t].who = p
  BY OnesOwn
<1>2. Before(b, t) \subseteq Payments(b, p)
  BY <1>1 DEF Before
<1>3. IsFiniteSet(Before(b, t)) /\ \A u \in Before(b, t) : b.rows[u].amount \in Int
  BY <1>2, OnesOwn, FS_Subset
<1>4. SumOf(b, Before(b, t)) = SumAmounts(b.rows, Before(b, t))
  BY DEF SumOf, SumAmounts
<1>5. PICK s \in Int : s = SumOf(b, Before(b, t))
  BY <1>3, <1>4, AmountsInt
<1>6. ASSUME l \notin Lent(b, p)
      PROVE  Cover(b, t) = None
  BY <1>1, <1>6 DEF Cover
<1>7. ASSUME l \in Lent(b, p)
      PROVE  \E rest \in Int :
                /\ rest = IF b.lends[l].principal <= s THEN 0 ELSE b.lends[l].principal - s
                /\ Cover(b, t) = IF rest > 0 THEN [lend |-> l, amount |-> IF rest <= b.rows[t].amount THEN rest ELSE b.rows[t].amount]
                                 ELSE None
  <2>1. PICK room \in Nat : room = b.lends[l].principal
    BY <1>7, OnesOwn
  <2>2. PICK amount \in Nat : amount = b.rows[t].amount
    BY OnesOwn
  <2>3. PICK rest \in Int : rest = IF room <= s THEN 0 ELSE room - s
    OBVIOUS
  <2>4. Min({room, s}) = IF room <= s THEN room ELSE s
    BY MinIs
  <2>5. room - Min({room, s}) = rest
    BY <2>3, <2>4
  <2>6. Min({rest, amount}) = IF rest <= amount THEN rest ELSE amount
    BY MinIs
  <2>7. Cover(b, t) = IF rest > 0 THEN [lend |-> l, amount |-> Min({rest, amount})] ELSE None
    BY <1>1, <1>5, <1>7, <2>1, <2>2, <2>5, Zenon DEF Cover
  <2> QED
    BY <2>1, <2>2, <2>3, <2>6, <2>7
<1> QED
  BY <1>2, <1>5, <1>6, <1>7

LEMMA CoverFitting ==
  ASSUME NEW b, NEW r, SoundBook(b, r), NEW p, NEW t \in Payments(b, p)
  PROVE  /\ Cover(b, t) \in {None} \cup CoverSet
         /\ Cover(b, t) # None => b.settled[t].pin \in Lent(b, p) /\ Cover(b, t).lend = b.settled[t].pin
<1>1. PICK l : l = b.settled[t].pin
  OBVIOUS
<1>2. CASE l \notin Lent(b, p)
  BY <1>1, <1>2, CoverIs
<1>3. CASE l \in Lent(b, p)
  <2>1. PICK amount \in Nat : amount = b.rows[t].amount
    BY OnesOwn
  <2>2. PICK rest \in Int : Cover(b, t) = IF rest > 0 THEN [lend |-> l, amount |-> IF rest <= amount THEN rest ELSE amount]
                                          ELSE None
    BY <1>1, <1>3, <2>1, CoverIs
  <2>3. CASE rest > 0
    <3>1. PICK a \in Nat : a = IF rest <= amount THEN rest ELSE amount
      BY <2>3
    <3>2. Cover(b, t) = [lend |-> l, amount |-> a]
      BY <2>2, <2>3, <3>1
    <3>3. l \in LendIds
      BY <1>3, OnesOwn
    <3> QED
      BY <1>1, <1>3, <3>2, <3>3 DEF CoverSet
  <2> QED
    BY <2>2, <2>3
<1> QED
  BY <1>2, <1>3

(* What a person's lends and payments are toward each other is the same.    *)
SamePaid(b, c, q, r, s) ==
  /\ Lent(c, q) = Lent(b, q) /\ Payments(c, q) = Payments(b, q)
  /\ \A t \in Payments(b, q) : /\ c.covers[t] = b.covers[t]
                               /\ \/ c.settled[t].pin = b.settled[t].pin
                                  \/ c.settled[t].pin \notin Lent(b, q) /\ b.settled[t].pin \notin Lent(b, q)
                               /\ t \notin s => /\ t \notin r /\ c.rows[t].amount = b.rows[t].amount
                                                /\ c.rows[t].day = b.rows[t].day
  /\ \A l \in Lent(b, q) : c.lends[l].principal = b.lends[l].principal

LEMMA CurrentKept ==
  ASSUME NEW b, NEW c, NEW r, NEW s, SoundBook(b, r), NEW q, SamePaid(b, c, q, r, s),
         Payments(b, q) \cap r = {} => Current(b, q), Payments(c, q) \cap s = {}
  PROVE  Current(c, q)
<1>1. /\ Lent(c, q) = Lent(b, q) /\ Payments(c, q) = Payments(b, q)
      /\ \A t \in Payments(b, q) : /\ c.covers[t] = b.covers[t]
                                   /\ \/ c.settled[t].pin = b.settled[t].pin
                                      \/ c.settled[t].pin \notin Lent(b, q) /\ b.settled[t].pin \notin Lent(b, q)
                                   /\ t \notin r /\ c.rows[t].amount = b.rows[t].amount
                                   /\ c.rows[t].day = b.rows[t].day
  BY DEF SamePaid
<1>2. ASSUME NEW t \in Payments(b, q)
      PROVE  Cover(c, t) = Cover(b, t)
  <2>1. b.settled[t].who = q /\ c.settled[t].who = q
    BY <1>1 DEF Payments
  <2>2. CASE b.settled[t].pin \notin Lent(b, q)
    <3>1. c.settled[t].pin \notin Lent(c, q)
      BY <1>1, <2>2
    <3> QED
      BY <2>1, <2>2, <3>1 DEF Cover
  <2>3. CASE b.settled[t].pin \in Lent(b, q)
    <3>1. c.settled[t].pin = b.settled[t].pin
      BY <1>1, <2>3
    <3>2. \A u \in Payments(b, q) : c.settled[u].pin = c.settled[t].pin <=> b.settled[u].pin = b.settled[t].pin
      BY <1>1, <2>3, <3>1
    <3>3. Before(c, t) = Before(b, t) /\ Before(b, t) \subseteq Payments(b, q)
      BY <1>1, <2>1, <3>2 DEF Before
    <3>4. IsFiniteSet(Before(b, t))
      BY <3>3, OnesOwn, FS_Subset
    <3>5. SumAmounts(c.rows, Before(b, t)) = SumAmounts(b.rows, Before(b, t))
      BY <1>1, <3>3, <3>4, AmountsSame
    <3>6. \A T : SumOf(c, T) = SumAmounts(c.rows, T) /\ SumOf(b, T) = SumAmounts(b.rows, T)
      BY DEF SumOf, SumAmounts
    <3>7. SumOf(c, Before(c, t)) = SumOf(b, Before(b, t))
      BY <3>3, <3>5, <3>6, Zenon
    <3>8. c.lends[b.settled[t].pin].principal = b.lends[b.settled[t].pin].principal
      BY <2>3 DEF SamePaid
    <3> QED
      BY <1>1, <2>1, <3>1, <3>7, <3>8, Zenon DEF Cover
  <2> QED
    BY <2>2, <2>3
<1>3. Current(b, q)
  BY <1>1
<1> QED
  BY <1>1, <1>2, <1>3, Zenon DEF Current

LEMMA AfterKept ==
  ASSUME NEW b, NEW c, NEW r, NEW s, NEW q, SamePaid(b, c, q, r, s), After(b, q, r),
         \A l \in Lent(b, q) : c.lends[l].day = b.lends[l].day
  PROVE  After(c, q, s)
BY Zenon DEF SamePaid, After

LEMMA InOrderAfter ==
  ASSUME NEW c, NEW s, SoundBook(c, s), NEW p, InOrder(c, p)
  PROVE  After(c, p, s)
<1> SUFFICES ASSUME Lent(c, p) # {}, NEW t \in Payments(c, p)
             PROVE  \E l \in Lent(c, p) : /\ c.settled[t].pin \in Lent(c, p) => l = c.settled[t].pin
                                          /\ c.lends[l].day <= c.rows[t].day
  BY DEF After
<1>1. CASE c.settled[t].pin \in Lent(c, p)
  <2>1. c.rows[t].day >= c.lends[c.settled[t].pin].day
    BY <1>1 DEF InOrder
  <2>2. c.rows[t].day \in Nat /\ c.lends[c.settled[t].pin].day \in Nat
    BY <1>1, OnesOwn
  <2> QED
    BY <1>1, <2>1, <2>2
<1>2. CASE c.settled[t].pin \notin Lent(c, p)
  <2> DEFINE days == {c.lends[l].day : l \in Lent(c, p)}
  <2>1. days \subseteq Nat /\ days # {}
    BY OnesOwn
  <2>2. Min(days) \in days
    <3> HIDE DEF days
    <3> QED
      BY <2>1, MinIs
  <2>3. c.rows[t].day >= Min(days)
    BY <1>2 DEF InOrder
  <2>4. PICK l \in Lent(c, p) : Min(days) = c.lends[l].day
    BY <2>2
  <2>5. c.rows[t].day \in Nat /\ c.lends[l].day \in Nat
    BY OnesOwn
  <2> QED
    BY <1>2, <2>3, <2>4, <2>5
<1> QED
  BY <1>1, <1>2

(* A request that rebalances whom it touches leaves everyone paid up.       *)
LEMMA Rebalances ==
  ASSUME NEW b, NEW c, NEW r, NEW s, SoundBook(b, r), SoundBook(c, s), PaidUp(b, r), NEW P,
         IsBook(c), c.covers \in [Slots -> {None} \cup CoverSet],
         \A t \in Slots : c.settled[t] = None => c.covers[t] = None,
         \A p \in P : InOrder(c, p),
         \A q \in People \ P : /\ SamePaid(b, c, q, r, s)
                               /\ \A l \in Lent(b, q) : c.lends[l].day = b.lends[l].day,
         NEW d, d = Rebalanced(c, P)
  PROVE  /\ IsBook(d) /\ SoundBook(d, s) /\ PaidUp(d, s)
         /\ d.rows = c.rows /\ d.lends = c.lends /\ d.settled = c.settled
<1>1. PICK covers : covers = [t \in Slots |-> IF \E p \in P : t \in Payments(c, p) THEN Cover(c, t) ELSE c.covers[t]]
  OBVIOUS
<1>2. d = [c EXCEPT !.covers = covers]
  BY <1>1, Zenon DEF Rebalanced
<1>3. IsBook(d) /\ d.rows = c.rows /\ d.lends = c.lends /\ d.settled = c.settled /\ d.covers = covers
  BY <1>2 DEF IsBook
<1>4. SoundBook(d, s)
  BY <1>3, Zenon DEF SoundBook
<1>5. /\ \A p : Lent(d, p) = Lent(c, p) /\ Payments(d, p) = Payments(c, p)
      /\ \A t : Cover(d, t) = Cover(c, t)
  BY <1>3, SameSays
<1>6. \A t \in Slots : d.covers[t] = IF \E p \in P : t \in Payments(c, p) THEN Cover(c, t) ELSE c.covers[t]
  BY <1>1, <1>3, Zenon
<1>7. d.covers \in [Slots -> {None} \cup CoverSet]
  <2>1. ASSUME NEW t \in Slots
        PROVE  d.covers[t] \in {None} \cup CoverSet
    <3>1. c.covers[t] \in {None} \cup CoverSet
      OBVIOUS
    <3>2. \A p \in P : t \in Payments(c, p) => Cover(c, t) \in {None} \cup CoverSet
      BY CoverFitting
    <3> QED
      BY <1>6, <3>1, <3>2, Zenon
  <2> QED
    BY <1>1, <1>3, <2>1
<1>8. ASSUME NEW t \in Slots
      PROVE  CoverFits(d, t)
  <2>1. CASE \E p \in P : t \in Payments(c, p)
    <3>1. PICK p : t \in Payments(c, p)
      BY <2>1
    <3>2. d.covers[t] = Cover(c, t)
      BY <1>6, <2>1
    <3>3. c.settled[t] # None /\ c.settled[t].who = p
      BY <3>1 DEF Payments
    <3> QED
      BY <1>3, <1>5, <3>1, <3>2, <3>3, CoverFitting DEF CoverFits
  <2>2. CASE ~ \E p \in P : t \in Payments(c, p)
    <3>1. d.covers[t] = c.covers[t]
      BY <1>6, <2>2
    <3>2. CASE c.settled[t] = None
      BY <3>1, <3>2, Zenon DEF CoverFits
    <3>3. CASE c.settled[t] # None
      <4>1. PICK q : q = c.settled[t].who
        OBVIOUS
      <4>2. t \in Payments(c, q)
        BY <3>3, <4>1 DEF Payments
      <4>3. q \in People
        BY <4>2, OnesOwn DEF PaySet
      <4>4. SamePaid(b, c, q, r, s)
        BY <2>2, <4>2, <4>3
      <4>5. /\ t \in Payments(b, q) /\ c.covers[t] = b.covers[t] /\ Lent(b, q) = Lent(c, q)
            /\ \/ c.settled[t].pin = b.settled[t].pin
               \/ c.settled[t].pin \notin Lent(b, q) /\ b.settled[t].pin \notin Lent(b, q)
        BY <4>2, <4>4 DEF SamePaid
      <4>6. CoverFits(b, t) /\ b.settled[t].who = q
        BY <4>5 DEF PaidUp, Payments
      <4> QED
        BY <1>3, <1>5, <3>1, <3>3, <4>1, <4>5, <4>6, Zenon DEF CoverFits
    <3> QED
      BY <3>2, <3>3
  <2> QED
    BY <2>1, <2>2
<1>9. ASSUME NEW p \in People
      PROVE  (Payments(d, p) \cap s = {} => Current(d, p)) /\ After(d, p, s)
  <2>1. CASE p \in P
    <3>1. \A t \in Payments(c, p) : d.covers[t] = Cover(d, t)
      <4>1. Payments(c, p) \subseteq Slots
        BY DEF Payments
      <4> QED
        BY <1>5, <1>6, <2>1, <4>1, Zenon
    <3>2. Current(d, p)
      BY <1>5, <3>1, Zenon DEF Current
    <3>3. After(c, p, s)
      BY <2>1, InOrderAfter
    <3> QED
      BY <1>3, <1>5, <3>2, <3>3, Zenon DEF After
  <2>2. CASE p \notin P
    <3>1. SamePaid(b, c, p, r, s) /\ \A l \in Lent(b, p) : c.lends[l].day = b.lends[l].day
      BY <2>2
    <3>2. (Payments(b, p) \cap r = {} => Current(b, p)) /\ After(b, p, r)
      BY DEF PaidUp
    <3>3. After(c, p, s)
      BY <3>1, <3>2, AfterKept
    <3>4. ASSUME Payments(d, p) \cap s = {}
          PROVE  Current(d, p)
      <4>1. Current(c, p)
        BY <1>5, <3>1, <3>2, <3>4, CurrentKept
      <4>2. ASSUME NEW t \in Payments(c, p)
            PROVE  d.covers[t] = Cover(d, t)
        <5>1. t \in Slots /\ c.settled[t].who = p
          BY DEF Payments
        <5>2. d.covers[t] = c.covers[t] \/ d.covers[t] = Cover(c, t)
          BY <1>6, <5>1
        <5> QED
          BY <1>5, <4>1, <5>2, Zenon DEF Current
      <4> QED
        BY <1>5, <4>2, Zenon DEF Current
    <3> QED
      BY <1>3, <1>5, <3>3, <3>4, Zenon DEF After
  <2> QED
    BY <2>1, <2>2
<1> QED
  BY <1>3, <1>4, <1>7, <1>8, <1>9, Zenon DEF PaidUp

(* The last of a set of payments, in the order they are taken.              *)
LEMMA LastPayment ==
  ASSUME NEW rows, NEW U, U # {}, U \subseteq Slots, \A t \in U : rows[t].day \in Nat
  PROVE  \E m \in U : \A t \in U : t # m => \/ rows[t].day < rows[m].day
                                            \/ rows[t].day = rows[m].day /\ t < m
<1>1. IsFiniteSet(U) /\ U \subseteq Nat
  BY SlotFacts, FS_Subset
<1>2. PICK f : f = [t \in U |-> rows[t].day]
  OBVIOUS
<1>3. f \in [U -> Nat] /\ \A t \in U : f[t] = rows[t].day
  BY <1>2
<1>4. PICK n \in Nat : \A t \in U : t <= n
  <2>1. PICK k \in Nat : k = 5 + Cardinality(People)
    BY LendsAssumption, FS_CardinalityType
  <2> QED
    BY <2>1 DEF Slots
<1>5. \E day \in {f[t] : t \in U} : \A e \in {f[t] : t \in U} : e <= day
  <2> DEFINE B == {V \in SUBSET U : \E k \in Nat : \A t \in V : f[t] <= k}
  <2>1. U \in B
    <3>1. SUFFICES ASSUME U \notin B
                   PROVE  FALSE
      OBVIOUS
    <3>2. PICK bad : bad = (SUBSET U) \ B
      OBVIOUS
    <3>3. bad \in SUBSET (SUBSET U) /\ bad # {}
      BY <3>1, <3>2
    <3>4. PICK V \in bad : \A W \in SUBSET V : W # V => W \notin bad
      BY <1>1, <3>3, SmallestSubset
    <3>5. V # {}
      BY <3>2, <3>4
    <3>6. PICK x \in V : TRUE
      BY <3>5
    <3>7. V \ {x} \in B
      BY <3>2, <3>3, <3>4, <3>6
    <3>8. PICK k \in Nat : \A t \in V \ {x} : f[t] <= k
      BY <3>7
    <3>9. f[x] \in Nat
      BY <1>3, <3>2, <3>6
    <3>10. PICK j \in Nat : k <= j /\ f[x] <= j
      <4>1. CASE k <= f[x]
        BY <3>9, <4>1
      <4>2. CASE f[x] <= k
        BY <4>2
      <4> QED
        BY <3>9, <4>1, <4>2
    <3>11. \A t \in V : f[t] \in Nat
      BY <1>3, <3>2
    <3>12. \A t \in V : f[t] <= j
      BY <3>8, <3>10, <3>11
    <3> QED
      BY <3>2, <3>12
  <2>2. PICK k \in Nat : \A t \in U : f[t] <= k
    BY <2>1
  <2>3. PICK D : D = {f[t] : t \in U}
    OBVIOUS
  <2>4. D \in SUBSET Nat /\ D # {} /\ \A e \in D : e <= k
    BY <1>3, <2>2, <2>3
  <2> QED
    BY <2>3, <2>4, GreatestNatural
<1>6. PICK day \in {f[t] : t \in U} : \A e \in {f[t] : t \in U} : e <= day
  BY <1>5
<1>7. PICK V : V = {t \in U : f[t] = day}
  OBVIOUS
<1>8. V \in SUBSET Nat /\ V # {} /\ \A t \in V : t <= n
  BY <1>1, <1>4, <1>6, <1>7
<1>9. PICK m \in V : \A t \in V : t <= m
  BY <1>8, GreatestNatural
<1>10. ASSUME NEW t \in U, t # m
       PROVE  \/ rows[t].day < rows[m].day
              \/ rows[t].day = rows[m].day /\ t < m
  <2>1. f[t] <= day /\ f[t] \in Nat /\ day \in Nat /\ f[t] = rows[t].day /\ rows[m].day = day /\ m \in Nat /\ t \in Nat
    BY <1>1, <1>3, <1>6, <1>7, <1>9
  <2>2. CASE f[t] = day
    <3>1. t <= m
      BY <1>7, <1>9, <2>2
    <3> QED
      BY <1>10, <2>1, <2>2, <3>1
  <2>3. CASE f[t] # day
    BY <2>1, <2>3
  <2> QED
    BY <2>2, <2>3
<1> QED
  BY <1>7, <1>9, <1>10

(* What the payments of a person cover of a lend is no more than the lend.  *)
LEMMA CoverSum ==
  ASSUME NEW b, NEW r, SoundBook(b, r), PaidUp(b, r), NEW p \in People, Payments(b, p) \cap r = {},
         NEW l \in Lent(b, p), NEW T, T = {t \in Slots : b.covers[t] # None /\ b.covers[t].lend = l}
  PROVE  SumAmounts(b.covers, T) <= b.lends[l].principal
<1>1. PICK Q : Q = {t \in Payments(b, p) : b.settled[t].pin = l}
  OBVIOUS
<1>2. IsFiniteSet(Q) /\ Q \subseteq Payments(b, p) /\ Q \subseteq Slots
  BY <1>1, OnesOwn, FS_Subset
<1>3. T \subseteq Q
  <2> SUFFICES ASSUME NEW t \in T
               PROVE  t \in Q
    OBVIOUS
  <2>1. CoverFits(b, t) /\ t \in Slots /\ b.covers[t] # None /\ b.covers[t].lend = l
    BY DEF PaidUp
  <2>2. b.settled[t] # None /\ b.settled[t].pin = l /\ l \in Lent(b, b.settled[t].who)
    BY <2>1 DEF CoverFits
  <2>3. b.settled[t].who = p
    BY <2>2 DEF Lent
  <2> QED
    BY <1>1, <2>1, <2>2, <2>3 DEF Payments
<1>4. \A t \in Q : /\ b.settled[t].who = p /\ b.settled[t].pin = l
                   /\ b.rows[t].amount \in Nat /\ b.rows[t].day \in Nat /\ b.covers[t] = Cover(b, t)
  BY <1>1, OnesOwn DEF PaidUp, Current
<1>5. PICK room \in Nat : room = b.lends[l].principal
  BY OnesOwn
<1>6. \A t \in T : b.covers[t].amount \in Int
  BY CoverFitting DEF PaidUp, CoverSet
<1> DEFINE Closed1(D) == \A t \in D : Before(b, t) \subseteq D
           Within(D) == /\ SumAmounts(b.covers, D \cap T) <= room
                        /\ SumAmounts(b.covers, D \cap T) <= SumAmounts(b.rows, D)
<1>7. PICK bad : bad = {D \in SUBSET Q : Closed1(D) /\ ~Within(D)}
  OBVIOUS
<1>8. SUFFICES ASSUME Q \in bad
               PROVE  FALSE
  <2>1. \A t \in Q : Before(b, t) \subseteq Q
    BY <1>1, <1>4 DEF Before
  <2>2. Q \notin bad => SumAmounts(b.covers, Q \cap T) <= room
    BY <1>7, <2>1
  <2>3. Q \cap T = T
    BY <1>3
  <2>4. Q \notin bad
    BY <1>8
  <2> QED
    BY <1>5, <2>2, <2>3, <2>4
<1>9. bad \in SUBSET (SUBSET Q) /\ bad # {}
  BY <1>7, <1>8
<1>10. PICK U \in bad : \A V \in SUBSET U : V # U => V \notin bad
  BY <1>2, <1>9, SmallestSubset
<1>11. U \subseteq Q /\ Closed1(U) /\ ~Within(U)
  BY <1>7, <1>10
<1>12. U # {}
  <2>1. ASSUME U = {}
        PROVE  FALSE
    <3>1. U \cap T = {}
      BY <2>1
    <3>2. SumAmounts(b.covers, U \cap T) = 0 /\ SumAmounts(b.rows, U) = 0
      BY <2>1, <3>1, AmountsNone, Zenon
    <3> QED
      BY <1>5, <1>11, <3>2
  <2> QED
    BY <2>1
<1>13. PICK m \in U : \A t \in U : t # m => \/ b.rows[t].day < b.rows[m].day
                                            \/ b.rows[t].day = b.rows[m].day /\ t < m
  <2>1. U \subseteq Slots /\ \A t \in U : b.rows[t].day \in Nat
    BY <1>2, <1>4, <1>11
  <2> QED
    BY <1>12, <2>1, LastPayment
<1>14. PICK V : V = U \ {m}
  OBVIOUS
<1>15. m \in Q /\ m \in Slots /\ V \subseteq Q /\ \A t \in Q : t \in Nat
  BY <1>2, <1>11, <1>13, <1>14, SlotFacts
<1>16. Before(b, m) = V
  <2>1. Before(b, m) \subseteq U
    BY <1>11, <1>13
  <2>2. m \notin Before(b, m)
    BY <1>4, <1>15 DEF Before
  <2>3. ASSUME NEW t \in V
        PROVE  t \in Before(b, m)
    <3>1. t \in U /\ t # m /\ t \in Q
      BY <1>14, <1>15, <2>3
    <3>2. \/ b.rows[t].day < b.rows[m].day
          \/ b.rows[t].day = b.rows[m].day /\ t < m
      BY <1>13, <3>1
    <3>3. t \in Payments(b, p) /\ b.settled[t].pin = b.settled[m].pin /\ b.settled[m].who = p
      BY <1>1, <1>4, <1>15, <3>1
    <3> QED
      BY <3>2, <3>3 DEF Before
  <2> QED
    BY <1>14, <2>1, <2>2, <2>3
<1>17. Closed1(V)
  <2> SUFFICES ASSUME NEW t \in V
               PROVE  m \notin Before(b, t)
    BY <1>11, <1>14
  <2>1. t \in U /\ t # m /\ t \in Q
    BY <1>14, <1>15
  <2>2. \/ b.rows[t].day < b.rows[m].day
        \/ b.rows[t].day = b.rows[m].day /\ t < m
    BY <1>13, <2>1
  <2>3. b.rows[t].day \in Nat /\ b.rows[m].day \in Nat /\ t \in Nat /\ m \in Nat
    BY <1>4, <1>15, <2>1
  <2>4. ~ (\/ b.rows[m].day < b.rows[t].day
           \/ b.rows[m].day = b.rows[t].day /\ m < t)
    BY <2>2, <2>3
  <2> QED
    BY <2>4 DEF Before
<1>18. Within(V)
  <2>1. V \in SUBSET U /\ V # U
    BY <1>13, <1>14
  <2>2. V \notin bad
    BY <1>10, <2>1
  <2>3. V \in SUBSET Q
    BY <1>15
  <2> HIDE DEF Closed1, Within
  <2> QED
    BY <1>7, <1>17, <2>2, <2>3
<1>19. /\ IsFiniteSet(V) /\ IsFiniteSet(V \cap T) /\ IsFiniteSet(V \cup {m}) /\ V \cup {m} = U /\ V \cap {m} = {}
       /\ IsFiniteSet((V \cap T) \cup {m}) /\ (V \cap T) \cap {m} = {}
  <2>1. V \cup {m} = U /\ V \cap {m} = {} /\ (V \cap T) \cap {m} = {}
    BY <1>13, <1>14
  <2>2. V \subseteq Q /\ V \cap T \subseteq Q /\ V \cup {m} \subseteq Q /\ (V \cap T) \cup {m} \subseteq Q
    BY <1>15
  <2> QED
    BY <1>2, <2>1, <2>2, FS_Subset
<1>20. PICK x \in Int : x = SumAmounts(b.covers, V \cap T)
  BY <1>6, <1>19, AmountsInt
<1>21. PICK y \in Int : y = SumAmounts(b.rows, V)
  <2>1. \A t \in V : b.rows[t].amount \in Int
    BY <1>4, <1>15
  <2> QED
    BY <1>19, <2>1, AmountsInt
<1>22. PICK a \in Nat : a = b.rows[m].amount
  BY <1>4, <1>15
<1>23. SumAmounts(b.rows, U) = y + a
  <2>1. \A t \in V \cup {m} : b.rows[t].amount \in Int
    BY <1>4, <1>15
  <2>2. SumAmounts(b.rows, V \cup {m}) = SumAmounts(b.rows, V) + SumAmounts(b.rows, {m})
    BY <1>19, <2>1, AmountsJoin
  <2>3. SumAmounts(b.rows, {m}) = a
    <3>1. b.rows[m].amount \in Int
      BY <1>22
    <3>2. SumAmounts(b.rows, {m}) = b.rows[m].amount
      BY <3>1, AmountsOne
    <3> QED
      BY <1>22, <3>2
  <2> QED
    BY <1>19, <1>21, <2>2, <2>3
<1>24. x <= room /\ x <= y
  BY <1>18, <1>20, <1>21
<1>25. PICK rest \in Int : /\ rest = IF room <= y THEN 0 ELSE room - y
                           /\ b.covers[m] = IF rest > 0 THEN [lend |-> l, amount |-> IF rest <= a THEN rest ELSE a] ELSE None
  <2>1. m \in Payments(b, p) /\ b.settled[m].pin = l /\ b.covers[m] = Cover(b, m)
    BY <1>2, <1>4, <1>15
  <2>2. SumOf(b, Before(b, m)) = SumAmounts(b.rows, Before(b, m))
    BY DEF SumOf, SumAmounts
  <2>3. SumOf(b, Before(b, m)) = y
    BY <1>16, <1>21, <2>2
  <2> QED
    BY <1>5, <1>22, <2>1, <2>3, CoverIs
<1>26. CASE m \notin T
  <2>1. U \cap T = V \cap T
    BY <1>14, <1>26
  <2>2. SumAmounts(b.covers, U \cap T) = x
    BY <1>20, <2>1
  <2>3. x <= y + a
    BY <1>24
  <2> QED
    BY <1>11, <1>23, <1>24, <2>2, <2>3
<1>27. CASE m \in T
  <2>1. b.covers[m] # None
    BY <1>27
  <2>2. rest > 0 /\ b.covers[m].amount = IF rest <= a THEN rest ELSE a
    BY <1>25, <2>1
  <2>3. PICK z \in Int : z = b.covers[m].amount
    BY <1>6, <1>27
  <2>4. \A t \in (V \cap T) \cup {m} : b.covers[t].amount \in Int
    BY <1>6, <1>27
  <2>5. SumAmounts(b.covers, (V \cap T) \cup {m}) = SumAmounts(b.covers, V \cap T) + SumAmounts(b.covers, {m})
    BY <1>19, <2>4, AmountsJoin
  <2>6. SumAmounts(b.covers, {m}) = z
    BY <2>3, AmountsOne
  <2>7. (V \cap T) \cup {m} = U \cap T
    BY <1>13, <1>14, <1>27
  <2>8. SumAmounts(b.covers, U \cap T) = x + z
    BY <1>20, <2>5, <2>6, <2>7
  <2>9. x + z <= room /\ x + z <= y + a
    BY <1>24, <1>25, <2>2, <2>3
  <2> QED
    BY <1>11, <1>23, <2>8, <2>9
<1> QED
  BY <1>26, <1>27

LEMMA SoundMore ==
  ASSUME NEW rows, NEW lends, NEW settled, NEW r, NEW s, r \subseteq s, Sound(rows, lends, settled, r)
  PROVE  Sound(rows, lends, settled, s)
<1>1. PaidRows(rows, lends, settled, s)
  BY Zenon DEF Sound, PaidRows
<1>2. BillRow(rows, lends, s)
  BY Zenon DEF Sound, BillRow
<1> QED
  BY <1>1, <1>2 DEF Sound

(* Rows and payments change, and no lend.                                   *)
LEMMA PaymentsSound ==
  ASSUME NEW rows, NEW lends, NEW settled, NEW r, Sound(rows, lends, settled, r),
         NEW new \in [Slots -> {None} \cup RowSet], NEW paid \in [Slots -> {None} \cup PaySet],
         \A t \in Slots : t > 5 \/ t = CashOut => new[t] = rows[t],
         \/ new[Bill] = rows[Bill]
         \/ (\A l \in Shares : lends[l] = None) /\ (new[Bill] # None => new[Bill].type # "lend")
         \/ Bill \in r /\ new[Bill] # None,
         PaidRows(new, lends, paid, r)
  PROVE  Sound(new, lends, paid, r)
<1>1. Kinds(new, lends, paid)
  BY DEF Sound, Kinds
<1>2. \A l \in Shares : new[Cut(l)] = rows[Cut(l)]
  BY SlotFacts
<1>3. ShareRows(new, lends)
  <2> SUFFICES ASSUME NEW l \in Shares
               PROVE  /\ lends[l] # None => lends[l].txn \in {Bill, Cut(l)} /\ new[Bill] # None
                      /\ new[Cut(l)] # None <=> On(lends, l, Cut(l))
    BY Zenon DEF ShareRows
  <2>1. /\ lends[l] # None => lends[l].txn \in {Bill, Cut(l)} /\ rows[Bill] # None
        /\ rows[Cut(l)] # None <=> On(lends, l, Cut(l))
    BY Zenon DEF Sound, ShareRows
  <2> QED
    BY <1>2, <2>1, Zenon
<1>4. CashRow(new, lends)
  <2>1. new[CashOut] = rows[CashOut]
    BY SlotFacts
  <2> QED
    BY <2>1 DEF Sound, CashRow
<1>5. BillRow(new, lends, r)
  <2>1. CASE Bill \in r
    BY <2>1 DEF BillRow
  <2>2. CASE new[Bill] = rows[Bill]
    <3>1. \A l \in Shares : lends[l] # None => new[lends[l].txn] = rows[lends[l].txn]
      BY <1>2, <2>2, Zenon DEF Sound, ShareRows
    <3> QED
      BY <2>2, <3>1, Zenon DEF Sound, BillRow
  <2>3. CASE (\A l \in Shares : lends[l] = None) /\ (new[Bill] # None => new[Bill].type # "lend")
    BY <2>3, Zenon DEF BillRow, On
  <2> QED
    BY <2>1, <2>2, <2>3
<1> QED
  BY <1>1, <1>3, <1>4, <1>5 DEF Sound

(* A row that is neither an expense nor a lend is nobody's share.           *)
LEMMA Unshared ==
  ASSUME NEW rows, NEW lends, NEW settled, NEW r, Sound(rows, lends, settled, r),
         Bill \notin r, rows[Bill] # None => rows[Bill].type \notin {"expense", "lend"}
  PROVE  \A l \in Shares : lends[l] = None
<1> SUFFICES ASSUME NEW l \in Shares, lends[l] # None
             PROVE  FALSE
  OBVIOUS
<1>1. lends[l].txn \in {Bill, Cut(l)} /\ rows[Bill] # None
  BY DEF Sound, ShareRows
<1>2. CASE lends[l].txn = Bill
  <2>1. rows[Bill] = LendRow(lends[l])
    BY <1>2 DEF Sound, BillRow
  <2> QED
    BY <1>1, <2>1 DEF LendRow
<1>3. CASE lends[l].txn = Cut(l)
  BY <1>1, <1>3 DEF Sound, BillRow
<1> QED
  BY <1>1, <1>2, <1>3

(* One row changes that may be a payment, and no lend.                      *)
LEMMA OnePayment ==
  ASSUME NEW rows, NEW lends, NEW settled, NEW r, Sound(rows, lends, settled, r),
         NEW t \in {Bill, Credit} \cup Adjustments,
         NEW row \in {None} \cup RowSet, NEW pay \in {None} \cup PaySet,
         pay # None => /\ row # None /\ (pay.pin # Overall => lends[pay.pin] # None)
                       /\ t \in {Bill, Credit} \ r => row.type = "lend_repayment",
         t \in Adjustments /\ row # None => pay # None /\ row.type = "writeoff",
         t = Credit /\ row # None => row.type \in Plain \cup {"lend_repayment"},
         t = Bill /\ row # None => row.type # "writeoff",
         t = Bill => \/ row = rows[Bill]
                     \/ (\A l \in Shares : lends[l] = None) /\ (row # None => row.type # "lend")
                     \/ Bill \in r /\ row # None
  PROVE  Sound([rows EXCEPT ![t] = row], lends, [settled EXCEPT ![t] = pay], r)
<1>0. PICK new, paid : new = [rows EXCEPT ![t] = row] /\ paid = [settled EXCEPT ![t] = pay]
  OBVIOUS
<1>1. t \in Slots /\ t # CashOut /\ ~ (t > 5) /\ (t \in Adjustments => t # Bill /\ t # Credit) /\ Bill # Credit
  <2>1. t \in Slots
    BY SlotFacts
  <2>2. t # CashOut /\ ~ (t > 5) /\ (t \in Adjustments => t # Bill /\ t # Credit) /\ Bill # Credit
    BY DEF Bill, CashOut, Credit, Adjustments
  <2> QED
    BY <2>1, <2>2
<1>2. new \in [Slots -> {None} \cup RowSet] /\ \A u \in Slots : new[u] = IF u = t THEN row ELSE rows[u]
  BY <1>0, <1>1 DEF Sound, Kinds
<1>3. paid \in [Slots -> {None} \cup PaySet] /\ \A u \in Slots : paid[u] = IF u = t THEN pay ELSE settled[u]
  BY <1>0, <1>1 DEF Sound, Kinds
<1>4. PaidRows(new, lends, paid, r)
  <2>1. ASSUME NEW u \in Slots, paid[u] # None
        PROVE  /\ u \in {Bill, Credit} \cup Adjustments /\ new[u] # None
               /\ paid[u].pin # Overall => lends[paid[u].pin] # None
               /\ u \in {Bill, Credit} \ r => new[u].type = "lend_repayment"
    <3>1. CASE u = t
      BY <1>2, <1>3, <2>1, <3>1
    <3>2. CASE u # t
      BY <1>2, <1>3, <2>1, <3>2 DEF Sound, PaidRows
    <3> QED
      BY <3>1, <3>2
  <2>2. ASSUME NEW u \in Adjustments, new[u] # None
        PROVE  paid[u] # None /\ new[u].type = "writeoff"
    <3>1. u \in Slots
      BY SlotFacts
    <3>2. CASE u = t
      BY <1>2, <1>3, <2>2, <3>1, <3>2
    <3>3. CASE u # t
      BY <1>2, <1>3, <2>2, <3>1, <3>3 DEF Sound, PaidRows
    <3> QED
      BY <3>2, <3>3
  <2>3. /\ new[Credit] # None => new[Credit].type \in Plain \cup {"lend_repayment"}
        /\ new[Bill] # None => new[Bill].type # "writeoff"
    BY <1>1, <1>2, SlotFacts DEF Sound, PaidRows
  <2> QED
    BY <2>1, <2>2, <2>3, Zenon DEF PaidRows
<1>5. \/ new[Bill] = rows[Bill]
      \/ (\A l \in Shares : lends[l] = None) /\ (new[Bill] # None => new[Bill].type # "lend")
      \/ Bill \in r /\ new[Bill] # None
  BY <1>1, <1>2, SlotFacts
<1>6. \A u \in Slots : u > 5 \/ u = CashOut => new[u] = rows[u]
  BY <1>1, <1>2
<1>7. Sound(new, lends, paid, r)
  BY <1>2, <1>3, <1>4, <1>5, <1>6, PaymentsSound
<1> QED
  BY <1>0, <1>7

(* A credit, or an income that was a bill, becomes a payment.               *)
LEMMA SettledSound ==
  ASSUME NEW rows, NEW lends, NEW settled, NEW r, Sound(rows, lends, settled, r), NEW t \in {Bill, Credit},
         rows[t] # None, rows[t].type = "income", NEW p \in People, NEW pin \in LendIds \cup {Overall},
         pin # Overall => lends[pin] # None,
         NEW new, new = [rows EXCEPT ![t].type = "lend_repayment"],
         NEW paid, paid = [settled EXCEPT ![t] = [who |-> p, pin |-> pin]]
  PROVE  Sound(new, lends, paid, r)
<1>1. PICK row : row = [rows[t] EXCEPT !.type = "lend_repayment"]
  OBVIOUS
<1>2. t \in Slots /\ rows[t] \in RowSet /\ t \notin Adjustments
  BY SlotFacts DEF Sound, Kinds
<1>3. row \in RowSet /\ row.type = "lend_repayment" /\ row # None
  BY <1>1, <1>2, NoneIsNoRow DEF RowSet, RowTypes
<1>4. PICK pay : pay = [who |-> p, pin |-> pin]
  OBVIOUS
<1>5. pay \in PaySet /\ pay # None /\ pay.pin = pin
  BY <1>4, NoneIsNoRow DEF PaySet
<1>6. new = [rows EXCEPT ![t] = row] /\ paid = [settled EXCEPT ![t] = pay]
  BY <1>1, <1>4
<1>7. t = Bill /\ Bill \notin r => \A l \in Shares : lends[l] = None
  BY Unshared
<1>8. /\ pay # None => /\ row # None /\ (pay.pin # Overall => lends[pay.pin] # None)
                       /\ t \in {Bill, Credit} \ r => row.type = "lend_repayment"
      /\ t \in Adjustments /\ row # None => pay # None /\ row.type = "writeoff"
      /\ t = Credit /\ row # None => row.type \in Plain \cup {"lend_repayment"}
      /\ t = Bill /\ row # None => row.type # "writeoff"
      /\ t = Bill => \/ row = rows[Bill]
                     \/ (\A l \in Shares : lends[l] = None) /\ (row # None => row.type # "lend")
                     \/ Bill \in r /\ row # None
  BY <1>2, <1>3, <1>5, <1>7
<1>9. t \in {Bill, Credit} \cup Adjustments /\ row \in {None} \cup RowSet /\ pay \in {None} \cup PaySet
  BY <1>3, <1>5
<1>10. Sound([rows EXCEPT ![t] = row], lends, [settled EXCEPT ![t] = pay], r)
  BY <1>8, <1>9, OnePayment
<1> QED
  BY <1>6, <1>10

(* A payment that is taken back is income again; a forgiven amount is gone. *)
LEMMA UnsettledSound ==
  ASSUME NEW rows, NEW lends, NEW settled, NEW r, Sound(rows, lends, settled, r), NEW t \in Slots, settled[t] # None,
         NEW new, new = [rows EXCEPT ![t] = IF rows[t].type = "writeoff" THEN None ELSE [rows[t] EXCEPT !.type = "income"]],
         NEW paid, paid = [settled EXCEPT ![t] = None]
  PROVE  Sound(new, lends, paid, r)
<1>1. PICK row : row = IF rows[t].type = "writeoff" THEN None ELSE [rows[t] EXCEPT !.type = "income"]
  OBVIOUS
<1>2. /\ t \in {Bill, Credit} \cup Adjustments /\ rows[t] # None
      /\ t \in Adjustments => rows[t].type = "writeoff"
      /\ t = Bill => rows[t].type # "writeoff"
      /\ t \in {Bill, Credit} \ r => rows[t].type = "lend_repayment"
      /\ t = Credit => rows[t].type \in Plain \cup {"lend_repayment"}
  BY DEF Sound, PaidRows
<1>3. rows[t] \in RowSet
  BY <1>2 DEF Sound, Kinds
<1>4. row \in {None} \cup RowSet /\ (row # None => row.type = "income") /\ (t = Bill => row # None)
      /\ (t \in Adjustments => row = None)
  BY <1>1, <1>2, <1>3, NoneIsNoRow DEF RowSet, RowTypes, Plain
<1>5. new = [rows EXCEPT ![t] = row]
  BY <1>1
<1>6. t = Bill /\ Bill \notin r => \A l \in Shares : lends[l] = None
  BY <1>2, Unshared
<1>7. "income" \in Plain
  BY DEF Plain
<1> DEFINE pay == None
<1>8. /\ pay # None => /\ row # None /\ (pay.pin # Overall => lends[pay.pin] # None)
                       /\ t \in {Bill, Credit} \ r => row.type = "lend_repayment"
      /\ t \in Adjustments /\ row # None => pay # None /\ row.type = "writeoff"
      /\ t = Credit /\ row # None => row.type \in Plain \cup {"lend_repayment"}
      /\ t = Bill /\ row # None => row.type # "writeoff"
      /\ t = Bill => \/ row = rows[Bill]
                     \/ (\A l \in Shares : lends[l] = None) /\ (row # None => row.type # "lend")
                     \/ Bill \in r /\ row # None
  BY <1>2, <1>4, <1>6, <1>7
<1>9. t \in {Bill, Credit} \cup Adjustments /\ row \in {None} \cup RowSet /\ pay \in {None} \cup PaySet
  BY <1>2, <1>4
<1>10. Sound([rows EXCEPT ![t] = row], lends, [settled EXCEPT ![t] = pay], r)
  BY <1>8, <1>9, OnePayment
<1> QED
  BY <1>5, <1>10

(* A payment counts toward another lend.                                    *)
LEMMA PinnedSound ==
  ASSUME NEW rows, NEW lends, NEW settled, NEW r, Sound(rows, lends, settled, r), NEW t \in Slots, settled[t] # None,
         NEW pin \in LendIds \cup {Overall}, pin # Overall => lends[pin] # None,
         NEW paid, paid = [settled EXCEPT ![t].pin = pin]
  PROVE  Sound(rows, lends, paid, r)
<1>1. PICK pay : pay = [settled[t] EXCEPT !.pin = pin]
  OBVIOUS
<1>2. PICK row : row = rows[t]
  OBVIOUS
<1>3. settled[t] \in PaySet
  BY DEF Sound, Kinds
<1>4. pay \in PaySet /\ pay.pin = pin /\ pay # None
  BY <1>1, <1>3, NoneIsNoRow DEF PaySet
<1>5. paid = [settled EXCEPT ![t] = pay] /\ rows = [rows EXCEPT ![t] = row]
  BY <1>1, <1>2 DEF Sound, Kinds
<1>6. /\ t \in {Bill, Credit} \cup Adjustments /\ row # None
      /\ t \in {Bill, Credit} \ r => row.type = "lend_repayment"
      /\ t \in Adjustments => row.type = "writeoff"
      /\ t = Credit => row.type \in Plain \cup {"lend_repayment"}
      /\ t = Bill => row.type # "writeoff" /\ row = rows[Bill]
  BY <1>2 DEF Sound, PaidRows
<1>7. row \in {None} \cup RowSet
  BY <1>2 DEF Sound, Kinds
<1>8. /\ pay # None => /\ row # None /\ (pay.pin # Overall => lends[pay.pin] # None)
                       /\ t \in {Bill, Credit} \ r => row.type = "lend_repayment"
      /\ t \in Adjustments /\ row # None => pay # None /\ row.type = "writeoff"
      /\ t = Credit /\ row # None => row.type \in Plain \cup {"lend_repayment"}
      /\ t = Bill /\ row # None => row.type # "writeoff"
      /\ t = Bill => \/ row = rows[Bill]
                     \/ (\A l \in Shares : lends[l] = None) /\ (row # None => row.type # "lend")
                     \/ Bill \in r /\ row # None
  BY <1>2, <1>4, <1>6
<1>9. t \in {Bill, Credit} \cup Adjustments /\ row \in {None} \cup RowSet /\ pay \in {None} \cup PaySet
  BY <1>4, <1>6, <1>7
<1>10. Sound([rows EXCEPT ![t] = row], lends, [settled EXCEPT ![t] = pay], r)
  BY <1>8, <1>9, OnePayment
<1> QED
  BY <1>5, <1>10

(* An amount is forgiven, or what was forgiven is changed.                  *)
LEMMA WrittenOffSound ==
  ASSUME NEW rows, NEW lends, NEW settled, NEW r, Sound(rows, lends, settled, r), NEW t \in Adjustments,
         NEW row \in RowSet, row.type = "writeoff", NEW pay \in PaySet, pay.pin # Overall => lends[pay.pin] # None,
         NEW new, new = [rows EXCEPT ![t] = row], NEW paid, paid = [settled EXCEPT ![t] = pay]
  PROVE  Sound(new, lends, paid, r)
<1>1. row # None /\ pay # None /\ t # Bill /\ t # Credit
  BY NoneIsNoRow, SlotFacts
<1> QED
  BY <1>1, OnePayment

(* A row that is neither a payment nor shared is deleted.                   *)
LEMMA DeletedSound ==
  ASSUME NEW rows, NEW lends, NEW settled, NEW r, Sound(rows, lends, settled, r), NEW t \in {Bill, Credit},
         settled[t] = None, t = Bill => \A l \in Shares : lends[l] = None,
         NEW new, new = [rows EXCEPT ![t] = None]
  PROVE  Sound(new, lends, settled, r)
<1>1. PICK pay : pay = settled[t]
  OBVIOUS
<1>2. settled = [settled EXCEPT ![t] = pay] /\ pay = None
  BY <1>1 DEF Sound, Kinds
<1> DEFINE row == None
<1>8. /\ pay # None => /\ row # None /\ (pay.pin # Overall => lends[pay.pin] # None)
                       /\ t \in {Bill, Credit} \ r => row.type = "lend_repayment"
      /\ t \in Adjustments /\ row # None => pay # None /\ row.type = "writeoff"
      /\ t = Credit /\ row # None => row.type \in Plain \cup {"lend_repayment"}
      /\ t = Bill /\ row # None => row.type # "writeoff"
      /\ t = Bill => \/ row = rows[Bill]
                     \/ (\A l \in Shares : lends[l] = None) /\ (row # None => row.type # "lend")
                     \/ Bill \in r /\ row # None
  BY <1>2, SlotFacts
<1>9. t \in {Bill, Credit} \cup Adjustments /\ row \in {None} \cup RowSet /\ pay \in {None} \cup PaySet
  BY <1>2
<1>10. Sound([rows EXCEPT ![t] = row], lends, [settled EXCEPT ![t] = pay], r)
  BY <1>8, <1>9, OnePayment
<1> QED
  BY <1>2, <1>10

(* Shares change, and the rows that carry them.                             *)
LEMMA SharesSound ==
  ASSUME NEW rows, NEW lends, NEW settled, NEW r, Sound(rows, lends, settled, r),
         NEW new \in [Slots -> {None} \cup RowSet], NEW owed \in [LendIds -> {None} \cup LendSet],
         \A t \in Slots : t # Bill /\ ~ (t > 5) => new[t] = rows[t],
         owed[CashLend] = lends[CashLend],
         new[Bill] # None => new[Bill].type # "writeoff",
         settled[Bill] # None => new[Bill] # None /\ (Bill \notin r => new[Bill].type = "lend_repayment"),
         \A t \in Slots : settled[t] # None /\ settled[t].pin # Overall => owed[settled[t].pin] # None,
         ShareRows(new, owed), BillRow(new, owed, r)
  PROVE  Sound(new, owed, settled, r)
<1>1. Kinds(new, owed, settled)
  BY DEF Sound, Kinds
<1>2. \A t \in {CashOut, Credit} \cup Adjustments : t \in Slots /\ t # Bill /\ ~ (t > 5)
  <2>1. \A t \in {CashOut, Credit} \cup Adjustments : t # Bill /\ ~ (t > 5)
    BY DEF Bill, CashOut, Credit, Adjustments
  <2> QED
    BY <2>1, SlotFacts
<1>3. \A t \in {CashOut, Credit} \cup Adjustments : new[t] = rows[t]
  BY <1>2
<1>4. CashRow(new, owed)
  BY <1>3 DEF Sound, CashRow
<1>5. PaidRows(new, owed, settled, r)
  <2>1. ASSUME NEW t \in Slots, settled[t] # None
        PROVE  /\ t \in {Bill, Credit} \cup Adjustments /\ new[t] # None
               /\ settled[t].pin # Overall => owed[settled[t].pin] # None
               /\ t \in {Bill, Credit} \ r => new[t].type = "lend_repayment"
    <3>1. /\ t \in {Bill, Credit} \cup Adjustments /\ rows[t] # None
          /\ t \in {Bill, Credit} \ r => rows[t].type = "lend_repayment"
      BY <2>1 DEF Sound, PaidRows
    <3>2. CASE t = Bill
      BY <2>1, <3>1, <3>2
    <3>3. CASE t # Bill
      BY <1>3, <2>1, <3>1, <3>3
    <3> QED
      BY <3>2, <3>3
  <2>2. ASSUME NEW t \in Adjustments, new[t] # None
        PROVE  settled[t] # None /\ new[t].type = "writeoff"
    BY <1>3, <2>2 DEF Sound, PaidRows
  <2>3. new[Credit] # None => new[Credit].type \in Plain \cup {"lend_repayment"}
    BY <1>3 DEF Sound, PaidRows
  <2> QED
    BY <2>1, <2>2, <2>3, Zenon DEF PaidRows
<1> QED
  BY <1>1, <1>4, <1>5 DEF Sound

LEMMA LendRows ==
  ASSUME NEW lend \in LendSet
  PROVE  /\ LendRow(lend) \in RowSet /\ LendRow(lend).type = "lend" /\ LendRow(lend).amount = lend.principal
         /\ LendRow(lend).day = lend.day /\ lend.principal \in Nat /\ lend.day \in Nat /\ lend.who \in People
         /\ LendRow(lend) # None
<1>1. /\ LendRow(lend) \in RowSet /\ LendRow(lend).type = "lend" /\ LendRow(lend).amount = lend.principal
      /\ LendRow(lend).day = lend.day /\ lend.principal \in Nat /\ lend.day \in Nat /\ lend.who \in People
  BY DEF LendRow, RowSet, LendSet, RowTypes
<1> QED
  BY <1>1, NoneIsNoRow

(* How a bill and its shares stand to each other.                           *)
LEMMA OneBill ==
  ASSUME NEW rows, NEW lends, NEW settled, NEW r, Sound(rows, lends, settled, r), NEW l \in Shares, lends[l] # None
  PROVE  /\ l \in LendIds /\ lends[l] \in LendSet /\ rows[Bill] \in RowSet /\ Cut(l) # Bill /\ Cut(l) \in Slots
         /\ lends[l].txn \in {Bill, Cut(l)}
         /\ lends[l].txn = Bill => rows[Cut(l)] = None
         /\ lends[l].txn = Cut(l) => rows[Cut(l)] \in RowSet
         /\ Bill \notin r => settled[Bill] = None
         /\ lends[l].txn = Bill /\ Bill \notin r =>
              rows[Bill] = LendRow(lends[l]) /\ \A k \in Shares : k # l => lends[k] = None
         /\ lends[l].txn = Cut(l) /\ Bill \notin r =>
              /\ rows[Cut(l)] = LendRow(lends[l]) /\ rows[Bill].type = "expense" /\ lends[l].day = rows[Bill].day
              /\ \A k \in Shares : lends[k] # None => lends[k].txn = Cut(k)
<1>1. l \in LendIds /\ Cut(l) # Bill /\ Cut(l) \in Slots /\ Bill \in Slots
  BY SlotFacts
<1>2. lends[l] \in LendSet
  BY <1>1 DEF Sound, Kinds
<1>3. /\ lends[l].txn \in {Bill, Cut(l)} /\ rows[Bill] # None
      /\ rows[Cut(l)] # None <=> On(lends, l, Cut(l))
  BY DEF Sound, ShareRows
<1>4. rows[Bill] \in RowSet
  BY <1>1, <1>3 DEF Sound, Kinds
<1>5. /\ lends[l].txn = Bill => rows[Cut(l)] = None
      /\ lends[l].txn = Cut(l) => rows[Cut(l)] \in RowSet
  BY <1>1, <1>3 DEF On, Sound, Kinds
<1>6. ASSUME Bill \notin r, lends[l].txn = Bill
      PROVE  rows[Bill] = LendRow(lends[l]) /\ rows[Bill].type = "lend" /\ \A k \in Shares : k # l => lends[k] = None
  <2>1. rows[Bill] = LendRow(lends[l])
    BY <1>6 DEF Sound, BillRow
  <2>2. rows[Bill].type = "lend"
    BY <2>1 DEF LendRow
  <2>3. ASSUME NEW k \in Shares, k # l, lends[k] # None
        PROVE  FALSE
    <3>1. lends[k].txn \in {Bill, Cut(k)}
      BY <2>3 DEF Sound, ShareRows
    <3>2. lends[k].txn # Cut(k)
      BY <1>6, <2>2, <2>3 DEF Sound, BillRow
    <3>3. On(lends, k, Bill) /\ On(lends, l, Bill)
      BY <1>6, <2>3, <3>1, <3>2 DEF On
    <3> QED
      BY <1>6, <2>3, <3>3 DEF Sound, BillRow
  <2> QED
    BY <2>1, <2>2, <2>3
<1>7. ASSUME Bill \notin r, lends[l].txn = Cut(l)
      PROVE  /\ rows[Cut(l)] = LendRow(lends[l]) /\ rows[Bill].type = "expense" /\ lends[l].day = rows[Bill].day
             /\ \A k \in Shares : lends[k] # None => lends[k].txn = Cut(k)
  <2>1. rows[Cut(l)] = LendRow(lends[l]) /\ rows[Bill].type = "expense" /\ lends[l].day = rows[Bill].day
    BY <1>7 DEF Sound, BillRow
  <2>2. ASSUME NEW k \in Shares, lends[k] # None, lends[k].txn # Cut(k)
        PROVE  FALSE
    <3>1. lends[k].txn = Bill
      BY <2>2 DEF Sound, ShareRows
    <3>2. rows[Bill] = LendRow(lends[k])
      BY <1>7, <2>2, <3>1 DEF Sound, BillRow
    <3> QED
      BY <2>1, <3>2 DEF LendRow
  <2> QED
    BY <2>1, <2>2
<1>8. ASSUME Bill \notin r
      PROVE  settled[Bill] = None
  <2>1. rows[Bill].type # "lend_repayment"
    BY <1>3, <1>6, <1>7, <1>8
  <2> QED
    BY <1>1, <1>8, <2>1 DEF Sound, PaidRows
<1> QED
  BY <1>1, <1>2, <1>3, <1>4, <1>5, <1>6, <1>7, <1>8

(* One share changes, and its bill.                                         *)
LEMMA OneShare ==
  ASSUME NEW rows, NEW lends, NEW settled, NEW r, Sound(rows, lends, settled, r), NEW l \in Shares,
         NEW bill \in RowSet, NEW row \in {None} \cup RowSet, NEW lend \in {None} \cup LendSet,
         rows[Bill] # None, bill.type # "writeoff",
         row # None <=> (lend # None /\ lend.txn = Cut(l)),
         lend # None => lend.txn \in {Bill, Cut(l)},
         lend = None => \A t \in Slots : settled[t] # None => settled[t].pin # l,
         settled[Bill] # None /\ Bill \notin r => bill.type = "lend_repayment",
         Bill \notin r =>
           /\ lend # None /\ lend.txn = Bill => bill = LendRow(lend) /\ \A k \in Shares : k # l => lends[k] = None
           /\ lend # None /\ lend.txn = Cut(l) => row = LendRow(lend) /\ bill.type = "expense" /\ lend.day = bill.day
           /\ \A k \in Shares : k # l /\ lends[k] # None =>
                lends[k].txn = Cut(k) /\ bill.type = "expense" /\ bill.day = rows[Bill].day
           /\ bill.type = "lend" => lend # None /\ lend.txn = Bill
  PROVE  Sound([rows EXCEPT ![Bill] = bill, ![Cut(l)] = row], [lends EXCEPT ![l] = lend], settled, r)
<1>1. PICK new, owed : new = [rows EXCEPT ![Bill] = bill, ![Cut(l)] = row] /\ owed = [lends EXCEPT ![l] = lend]
  OBVIOUS
<1>2. /\ l \in LendIds /\ Cut(l) \in Slots /\ Bill \in Slots /\ Cut(l) # Bill /\ l # CashLend /\ CashLend \in LendIds
      /\ \A k \in Shares : k # l => k \in LendIds /\ Cut(k) # Bill /\ Cut(k) # Cut(l) /\ Cut(k) \in Slots
      /\ Cut(l) > 5
  BY SlotFacts
<1>3. /\ new \in [Slots -> {None} \cup RowSet] /\ new[Bill] = bill /\ new[Cut(l)] = row
      /\ \A t \in Slots : t # Bill /\ t # Cut(l) => new[t] = rows[t]
  BY <1>1, <1>2 DEF Sound, Kinds
<1>4. /\ owed \in [LendIds -> {None} \cup LendSet] /\ owed[l] = lend
      /\ \A k \in LendIds : k # l => owed[k] = lends[k]
  BY <1>1, <1>2 DEF Sound, Kinds
<1>5. bill # None
  BY NoneIsNoRow
<1>6. ShareRows(new, owed)
  <2> SUFFICES ASSUME NEW k \in Shares
               PROVE  /\ owed[k] # None => owed[k].txn \in {Bill, Cut(k)} /\ new[Bill] # None
                      /\ new[Cut(k)] # None <=> On(owed, k, Cut(k))
    BY Zenon DEF ShareRows
  <2>1. CASE k = l
    BY <1>3, <1>4, <1>5, <2>1, Zenon DEF On
  <2>2. CASE k # l
    <3>1. owed[k] = lends[k] /\ new[Cut(k)] = rows[Cut(k)]
      BY <1>2, <1>3, <1>4, <2>2
    <3>2. /\ lends[k] # None => lends[k].txn \in {Bill, Cut(k)}
          /\ rows[Cut(k)] # None <=> On(lends, k, Cut(k))
      BY Zenon DEF Sound, ShareRows
    <3> QED
      BY <1>3, <1>5, <3>1, <3>2, Zenon DEF On
  <2> QED
    BY <2>1, <2>2
<1>7. BillRow(new, owed, r)
  <2> SUFFICES ASSUME Bill \notin r
               PROVE  /\ \A k \in Shares : owed[k] # None =>
                           /\ new[owed[k].txn] = LendRow(owed[k])
                           /\ owed[k].txn = Cut(k) => new[Bill].type = "expense" /\ owed[k].day = new[Bill].day
                      /\ \A k, j \in Shares : On(owed, k, Bill) /\ On(owed, j, Bill) => k = j
                      /\ new[Bill] # None /\ new[Bill].type = "lend" => \E k \in Shares : On(owed, k, Bill)
    BY Zenon DEF BillRow
  <2>1. ASSUME NEW k \in Shares, owed[k] # None
        PROVE  /\ new[owed[k].txn] = LendRow(owed[k])
               /\ owed[k].txn = Cut(k) => new[Bill].type = "expense" /\ owed[k].day = new[Bill].day
    <3>1. CASE k = l
      <4>1. CASE lend.txn = Bill
        BY <1>2, <1>3, <1>4, <2>1, <3>1, <4>1, Zenon
      <4>2. CASE lend.txn = Cut(l)
        BY <1>2, <1>3, <1>4, <2>1, <3>1, <4>2, Zenon
      <4> QED
        BY <1>4, <2>1, <3>1, <4>1, <4>2
    <3>2. CASE k # l
      <4>1. owed[k] = lends[k] /\ new[Cut(k)] = rows[Cut(k)]
        BY <1>2, <1>3, <1>4, <3>2
      <4>2. lends[k].txn = Cut(k) /\ bill.type = "expense" /\ bill.day = rows[Bill].day
        BY <2>1, <3>2, <4>1
      <4>3. rows[Cut(k)] = LendRow(lends[k]) /\ lends[k].day = rows[Bill].day
        BY <2>1, <4>1, <4>2, Zenon DEF Sound, BillRow
      <4> QED
        BY <1>3, <4>1, <4>2, <4>3
    <3> QED
      BY <3>1, <3>2
  <2>2. ASSUME NEW k \in Shares, On(owed, k, Bill)
        PROVE  k = l
    BY <1>2, <1>4, <2>2 DEF On
  <2>3. bill.type = "lend" => On(owed, l, Bill)
    BY <1>4 DEF On
  <2> QED
    BY <1>3, <2>1, <2>2, <2>3, Zenon
<1>8. \A t \in Slots : t # Bill /\ ~ (t > 5) => new[t] = rows[t]
  BY <1>2, <1>3
<1>9. \A t \in Slots : settled[t] # None /\ settled[t].pin # Overall => owed[settled[t].pin] # None
  <2> SUFFICES ASSUME NEW t \in Slots, settled[t] # None, settled[t].pin # Overall
               PROVE  owed[settled[t].pin] # None
    OBVIOUS
  <2>1. lends[settled[t].pin] # None
    BY DEF Sound, PaidRows
  <2>2. settled[t].pin \in LendIds
    BY DEF Sound, Kinds, PaySet
  <2> QED
    BY <1>4, <2>1, <2>2
<1>10. owed[CashLend] = lends[CashLend]
  BY <1>2, <1>4
<1>11. Sound(new, owed, settled, r)
  BY <1>3, <1>4, <1>5, <1>6, <1>7, <1>8, <1>9, <1>10, SharesSound
<1> QED
  BY <1>1, <1>11

(* The bill is cut into the user's part and one share.                      *)
LEMMA MovedSound ==
  ASSUME NEW rows, NEW lends, NEW settled, NEW r, Sound(rows, lends, settled, r), NEW l \in Shares, lends[l] # None,
         NEW share \in Nat, NEW rest \in Nat,
         NEW bill, bill = [rows[Bill] EXCEPT !.type = IF lends[l].txn = Bill THEN "expense" ELSE rows[Bill].type,
                                             !.amount = rest],
         NEW row, row = IF lends[l].txn = Bill THEN [type |-> "lend", amount |-> share, day |-> rows[Bill].day]
                        ELSE [rows[Cut(l)] EXCEPT !.amount = share],
         NEW lend, lend = [lends[l] EXCEPT !.txn = Cut(l), !.principal = share]
  PROVE  Sound([rows EXCEPT ![Bill] = bill, ![Cut(l)] = row], [lends EXCEPT ![l] = lend], settled, r)
<1>1. /\ lends[l] \in LendSet /\ rows[Bill] \in RowSet /\ Cut(l) # Bill /\ Cut(l) \in Slots
      /\ lends[l].txn \in {Bill, Cut(l)} /\ (lends[l].txn = Cut(l) => rows[Cut(l)] \in RowSet)
  BY OneBill
<1>2. bill \in RowSet /\ bill.day = rows[Bill].day /\ bill.type = IF lends[l].txn = Bill THEN "expense" ELSE rows[Bill].type
  BY <1>1 DEF RowSet, RowTypes, Plain
<1>3. row \in RowSet
  <2>1. CASE lends[l].txn = Bill
    BY <1>1, <2>1 DEF RowSet, RowTypes
  <2>2. CASE lends[l].txn # Bill
    BY <1>1, <2>2 DEF RowSet
  <2> QED
    BY <2>1, <2>2
<1>4. lend \in LendSet /\ lend.txn = Cut(l) /\ lend.day = lends[l].day /\ lend.principal = share
  BY <1>1 DEF LendSet
<1>5. lend # None /\ row # None /\ bill # None /\ rows[Bill] # None
  BY <1>1, <1>2, <1>3, <1>4, NoneIsNoRow
<1>6. bill.type # "writeoff"
  <2>1. rows[Bill].type # "writeoff"
    BY <1>5 DEF Sound, PaidRows
  <2> QED
    BY <1>2, <2>1
<1>7. ASSUME Bill \notin r
      PROVE  /\ settled[Bill] = None
             /\ row = LendRow(lend) /\ bill.type = "expense" /\ lend.day = bill.day
             /\ \A k \in Shares : k # l /\ lends[k] # None => lends[k].txn = Cut(k)
  <2>1. CASE lends[l].txn = Bill
    <3>1. rows[Bill] = LendRow(lends[l]) /\ settled[Bill] = None /\ \A k \in Shares : k # l => lends[k] = None
      BY <1>7, <2>1, OneBill
    <3>2. rows[Bill].day = lends[l].day
      BY <1>1, <3>1, LendRows
    <3> QED
      BY <1>2, <1>4, <2>1, <3>1, <3>2 DEF LendRow
  <2>2. CASE lends[l].txn = Cut(l)
    <3>1. /\ rows[Cut(l)] = LendRow(lends[l]) /\ settled[Bill] = None /\ rows[Bill].type = "expense"
          /\ lends[l].day = rows[Bill].day /\ \A k \in Shares : lends[k] # None => lends[k].txn = Cut(k)
      BY <1>7, <2>2, OneBill
    <3>2. row = LendRow(lend)
      BY <1>1, <1>4, <2>2, <3>1 DEF LendRow
    <3> QED
      BY <1>1, <1>2, <1>4, <2>2, <3>1, <3>2
  <2> QED
    BY <1>1, <2>1, <2>2
<1>8. /\ row # None <=> (lend # None /\ lend.txn = Cut(l))
      /\ lend # None => lend.txn \in {Bill, Cut(l)}
      /\ lend = None => \A t \in Slots : settled[t] # None => settled[t].pin # l
      /\ settled[Bill] # None /\ Bill \notin r => bill.type = "lend_repayment"
      /\ Bill \notin r =>
           /\ lend # None /\ lend.txn = Bill => bill = LendRow(lend) /\ \A k \in Shares : k # l => lends[k] = None
           /\ lend # None /\ lend.txn = Cut(l) => row = LendRow(lend) /\ bill.type = "expense" /\ lend.day = bill.day
           /\ \A k \in Shares : k # l /\ lends[k] # None =>
                lends[k].txn = Cut(k) /\ bill.type = "expense" /\ bill.day = rows[Bill].day
           /\ bill.type = "lend" => lend # None /\ lend.txn = Bill
  BY <1>1, <1>2, <1>4, <1>5, <1>7
<1>9. row \in {None} \cup RowSet /\ lend \in {None} \cup LendSet
  BY <1>3, <1>4
<1>10. bill \in RowSet /\ rows[Bill] # None /\ bill.type # "writeoff"
  BY <1>2, <1>5, <1>6
<1>11. PICK bill2, row2, lend2 : bill2 = bill /\ row2 = row /\ lend2 = lend
  OBVIOUS
<1>12. /\ row2 # None <=> (lend2 # None /\ lend2.txn = Cut(l))
       /\ lend2 # None => lend2.txn \in {Bill, Cut(l)}
       /\ lend2 = None => \A t \in Slots : settled[t] # None => settled[t].pin # l
       /\ settled[Bill] # None /\ Bill \notin r => bill2.type = "lend_repayment"
       /\ Bill \notin r =>
           /\ lend2 # None /\ lend2.txn = Bill => bill2 = LendRow(lend2) /\ \A k \in Shares : k # l => lends[k] = None
           /\ lend2 # None /\ lend2.txn = Cut(l) => row2 = LendRow(lend2) /\ bill2.type = "expense" /\ lend2.day = bill2.day
           /\ \A k \in Shares : k # l /\ lends[k] # None =>
                lends[k].txn = Cut(k) /\ bill2.type = "expense" /\ bill2.day = rows[Bill].day
           /\ bill2.type = "lend" => lend2 # None /\ lend2.txn = Bill
  BY <1>8, <1>11
<1>13. bill2 \in RowSet /\ row2 \in {None} \cup RowSet /\ lend2 \in {None} \cup LendSet /\ bill2.type # "writeoff"
  BY <1>9, <1>10, <1>11
<1>14. Sound([rows EXCEPT ![Bill] = bill2, ![Cut(l)] = row2], [lends EXCEPT ![l] = lend2], settled, r)
  BY <1>10, <1>12, <1>13, OneShare
<1> QED
  BY <1>11, <1>14

(* The share is all there is left of the bill.                              *)
LEMMA WholeSound ==
  ASSUME NEW rows, NEW lends, NEW settled, NEW r, Sound(rows, lends, settled, r), NEW l \in Shares, lends[l] # None,
         lends[l].txn # Bill, \A k \in Shares : k # l => lends[k] = None,
         NEW whole \in Nat,
         NEW bill, bill = [rows[Bill] EXCEPT !.type = "lend", !.amount = whole],
         NEW lend, lend = [lends[l] EXCEPT !.txn = Bill, !.principal = whole]
  PROVE  Sound([rows EXCEPT ![Bill] = bill, ![Cut(l)] = None], [lends EXCEPT ![l] = lend], settled, r)
<1>1. /\ lends[l] \in LendSet /\ rows[Bill] \in RowSet /\ Cut(l) # Bill /\ Cut(l) \in Slots /\ lends[l].txn = Cut(l)
      /\ Bill \in Slots
  BY OneBill, SlotFacts
<1>2. bill \in RowSet /\ bill.day = rows[Bill].day /\ bill.type = "lend" /\ bill.amount = whole
      /\ bill = [type |-> "lend", amount |-> whole, day |-> rows[Bill].day]
  BY <1>1 DEF RowSet, RowTypes
<1>3. lend \in LendSet /\ lend.txn = Bill /\ lend.day = lends[l].day /\ lend.principal = whole
  BY <1>1 DEF LendSet
<1>4. lend # None /\ bill # None /\ rows[Bill] # None
  BY <1>1, <1>2, <1>3, NoneIsNoRow
<1>5. ASSUME Bill \notin r
      PROVE  settled[Bill] = None /\ bill = LendRow(lend)
  <2>1. lends[l].day = rows[Bill].day /\ settled[Bill] = None
    BY <1>1, <1>5, OneBill
  <2> QED
    BY <1>2, <1>3, <2>1 DEF LendRow
<1> DEFINE row == None
<1>6. /\ row # None <=> (lend # None /\ lend.txn = Cut(l))
      /\ lend # None => lend.txn \in {Bill, Cut(l)}
      /\ lend = None => \A t \in Slots : settled[t] # None => settled[t].pin # l
      /\ settled[Bill] # None /\ Bill \notin r => bill.type = "lend_repayment"
      /\ Bill \notin r =>
           /\ lend # None /\ lend.txn = Bill => bill = LendRow(lend) /\ \A k \in Shares : k # l => lends[k] = None
           /\ lend # None /\ lend.txn = Cut(l) => row = LendRow(lend) /\ bill.type = "expense" /\ lend.day = bill.day
           /\ \A k \in Shares : k # l /\ lends[k] # None =>
                lends[k].txn = Cut(k) /\ bill.type = "expense" /\ bill.day = rows[Bill].day
           /\ bill.type = "lend" => lend # None /\ lend.txn = Bill
  BY <1>1, <1>2, <1>3, <1>4, <1>5
<1>7. row \in {None} \cup RowSet /\ bill.type # "writeoff"
  BY <1>2
<1>8. Sound([rows EXCEPT ![Bill] = bill, ![Cut(l)] = row], [lends EXCEPT ![l] = lend], settled, r)
  <2> HIDE DEF row
  <2> QED
    BY <1>2, <1>3, <1>4, <1>6, <1>7, OneShare
<1> QED
  BY <1>8

(* The whole bill becomes a lend, over shares only where the mark raced.    *)
LEMMA MarkedSound ==
  ASSUME NEW rows, NEW lends, NEW settled, NEW r, Sound(rows, lends, settled, r), NEW l \in Shares, lends[l] = None,
         rows[Bill] # None, rows[Bill].type = "expense", Bill \in r \/ \A k \in Shares : rows[Cut(k)] = None,
         NEW p \in People,
         NEW bill, bill = [rows[Bill] EXCEPT !.type = "lend"],
         NEW lend, lend = [who |-> p, principal |-> rows[Bill].amount, txn |-> Bill, day |-> rows[Bill].day]
  PROVE  Sound([rows EXCEPT ![Bill] = bill], [lends EXCEPT ![l] = lend], settled, r)
<1>1. /\ rows[Bill] \in RowSet /\ Cut(l) # Bill /\ Cut(l) \in Slots /\ Bill \in Slots /\ l \in LendIds
  BY SlotFacts DEF Sound, Kinds
<1>2. bill \in RowSet /\ bill.day = rows[Bill].day /\ bill.type = "lend"
      /\ bill = [type |-> "lend", amount |-> rows[Bill].amount, day |-> rows[Bill].day]
  BY <1>1 DEF RowSet, RowTypes
<1>3. lend \in LendSet /\ lend.txn = Bill /\ lend.day = rows[Bill].day /\ lend.principal = rows[Bill].amount
  BY <1>1 DEF LendSet, RowSet
<1>4. lend # None /\ bill # None
  BY <1>2, <1>3, NoneIsNoRow
<1>5. rows[Cut(l)] = None
  BY DEF Sound, ShareRows, On
<1>6. ASSUME Bill \notin r
      PROVE  settled[Bill] = None /\ bill = LendRow(lend) /\ \A k \in Shares : k # l => lends[k] = None
  <2>1. settled[Bill] = None
    BY <1>1, <1>6 DEF Sound, PaidRows
  <2>2. ASSUME NEW k \in Shares, lends[k] # None
        PROVE  FALSE
    <3>1. rows[Cut(k)] = None
      BY <1>6
    <3>2. lends[k].txn = Bill
      BY <2>2, <3>1 DEF Sound, ShareRows, On
    <3>3. rows[Bill] = LendRow(lends[k])
      BY <1>6, <2>2, <3>2, OneBill
    <3> QED
      BY <3>3 DEF LendRow
  <2> QED
    BY <1>2, <1>3, <2>1, <2>2 DEF LendRow
<1>7. [rows EXCEPT ![Bill] = bill] = [rows EXCEPT ![Bill] = bill, ![Cut(l)] = None]
  BY <1>1, <1>5 DEF Sound, Kinds
<1> DEFINE row == None
<1>8. /\ row # None <=> (lend # None /\ lend.txn = Cut(l))
      /\ lend # None => lend.txn \in {Bill, Cut(l)}
      /\ lend = None => \A t \in Slots : settled[t] # None => settled[t].pin # l
      /\ settled[Bill] # None /\ Bill \notin r => bill.type = "lend_repayment"
      /\ Bill \notin r =>
           /\ lend # None /\ lend.txn = Bill => bill = LendRow(lend) /\ \A k \in Shares : k # l => lends[k] = None
           /\ lend # None /\ lend.txn = Cut(l) => row = LendRow(lend) /\ bill.type = "expense" /\ lend.day = bill.day
           /\ \A k \in Shares : k # l /\ lends[k] # None =>
                lends[k].txn = Cut(k) /\ bill.type = "expense" /\ bill.day = rows[Bill].day
           /\ bill.type = "lend" => lend # None /\ lend.txn = Bill
  BY <1>1, <1>2, <1>3, <1>4, <1>6
<1>9. row \in {None} \cup RowSet /\ bill.type # "writeoff"
  BY <1>2
<1>10. Sound([rows EXCEPT ![Bill] = bill, ![Cut(l)] = row], [lends EXCEPT ![l] = lend], settled, r)
  <2> HIDE DEF row
  <2> QED
    BY <1>2, <1>3, <1>4, <1>8, <1>9, OneShare
<1> QED
  BY <1>7, <1>10

(* The pins to a lend, dropped.                                             *)
Unpinned(settled, l) ==
  [t \in Slots |-> IF settled[t] # None /\ settled[t].pin = l THEN [settled[t] EXCEPT !.pin = Overall] ELSE settled[t]]

LEMMA UnpinnedSound ==
  ASSUME NEW rows, NEW lends, NEW settled, NEW r, Sound(rows, lends, settled, r), NEW l \in LendIds
  PROVE  /\ Sound(rows, lends, Unpinned(settled, l), r)
         /\ \A t \in Slots : /\ Unpinned(settled, l)[t] # None => Unpinned(settled, l)[t].pin # l
                             /\ Unpinned(settled, l)[t] = None <=> settled[t] = None
                             /\ settled[t] # None => Unpinned(settled, l)[t].who = settled[t].who
                             /\ settled[t] # None /\ settled[t].pin # l => Unpinned(settled, l)[t] = settled[t]
                             /\ settled[t] # None /\ settled[t].pin = l => Unpinned(settled, l)[t].pin = Overall
<1>1. PICK paid : paid = Unpinned(settled, l)
  OBVIOUS
<1>2. \A t \in Slots : paid[t] = IF settled[t] # None /\ settled[t].pin = l
                                 THEN [settled[t] EXCEPT !.pin = Overall] ELSE settled[t]
  BY <1>1 DEF Unpinned
<1>3. ASSUME NEW t \in Slots
      PROVE  /\ paid[t] \in {None} \cup PaySet
             /\ paid[t] # None => paid[t].pin # l
             /\ paid[t] = None <=> settled[t] = None
             /\ settled[t] # None => paid[t].who = settled[t].who
             /\ settled[t] # None /\ settled[t].pin # l => paid[t] = settled[t]
             /\ settled[t] # None /\ settled[t].pin = l => paid[t].pin = Overall
  <2>1. settled[t] \in {None} \cup PaySet
    BY DEF Sound, Kinds
  <2>2. CASE settled[t] # None /\ settled[t].pin = l
    <3>1. paid[t] = [settled[t] EXCEPT !.pin = Overall]
      BY <1>2, <2>2
    <3>2. paid[t] \in PaySet /\ paid[t].pin = Overall /\ paid[t].who = settled[t].who
      BY <2>1, <2>2, <3>1 DEF PaySet
    <3> QED
      BY <2>2, <3>2, NoneIsNoRow, SlotFacts
  <2>3. CASE ~ (settled[t] # None /\ settled[t].pin = l)
    BY <1>2, <2>1, <2>3
  <2> QED
    BY <2>2, <2>3
<1>4. paid \in [Slots -> {None} \cup PaySet]
  <2>1. paid = [t \in Slots |-> IF settled[t] # None /\ settled[t].pin = l
                                 THEN [settled[t] EXCEPT !.pin = Overall] ELSE settled[t]]
    BY <1>1 DEF Unpinned
  <2> QED
    BY <1>3, <2>1
<1>5. Kinds(rows, lends, paid)
  BY <1>4 DEF Sound, Kinds
<1>6. PaidRows(rows, lends, paid, r)
  <2>1. ASSUME NEW t \in Slots, paid[t] # None
        PROVE  /\ t \in {Bill, Credit} \cup Adjustments /\ rows[t] # None
               /\ paid[t].pin # Overall => lends[paid[t].pin] # None
               /\ t \in {Bill, Credit} \ r => rows[t].type = "lend_repayment"
    BY <1>3, <2>1 DEF Sound, PaidRows
  <2>2. ASSUME NEW t \in Adjustments, rows[t] # None
        PROVE  paid[t] # None /\ rows[t].type = "writeoff"
    <3>1. t \in Slots
      BY SlotFacts
    <3> QED
      BY <1>3, <2>2, <3>1 DEF Sound, PaidRows
  <2> QED
    BY <2>1, <2>2, Zenon DEF Sound, PaidRows
<1>7. Sound(rows, lends, paid, r)
  BY <1>5, <1>6 DEF Sound
<1> QED
  BY <1>1, <1>3, <1>7

(* The cash lend is made, changed or deleted.                               *)
LEMMA CashSound ==
  ASSUME NEW rows, NEW lends, NEW settled, NEW r, Sound(rows, lends, settled, r),
         NEW lend \in {None} \cup LendSet, NEW row, row = IF lend = None THEN None ELSE LendRow(lend),
         lend # None => lend.txn = CashOut,
         lend = None => \A t \in Slots : settled[t] # None => settled[t].pin # CashLend
  PROVE  Sound([rows EXCEPT ![CashOut] = row], [lends EXCEPT ![CashLend] = lend], settled, r)
<1>1. PICK new, owed : new = [rows EXCEPT ![CashOut] = row] /\ owed = [lends EXCEPT ![CashLend] = lend]
  OBVIOUS
<1>2. row \in {None} \cup RowSet
  BY LendRows
<1>3. CashOut \in Slots /\ CashLend \in LendIds /\ CashLend \notin Shares /\ \A l \in Shares : l \in LendIds
  BY SlotFacts
<1>4. new \in [Slots -> {None} \cup RowSet] /\ \A t \in Slots : new[t] = IF t = CashOut THEN row ELSE rows[t]
  BY <1>1, <1>2, <1>3 DEF Sound, Kinds
<1>5. owed \in [LendIds -> {None} \cup LendSet] /\ \A l \in LendIds : owed[l] = IF l = CashLend THEN lend ELSE lends[l]
  BY <1>1, <1>3 DEF Sound, Kinds
<1>6. /\ \A l \in Shares : owed[l] = lends[l] /\ new[Cut(l)] = rows[Cut(l)]
      /\ \A t \in {Bill, Credit} \cup Adjustments : t \in Slots /\ new[t] = rows[t]
      /\ new[CashOut] = row /\ owed[CashLend] = lend
  <2>1. \A l \in Shares : Cut(l) \in Slots /\ Cut(l) # CashOut /\ l # CashLend
    BY SlotFacts
  <2>2. \A t \in {Bill, Credit} \cup Adjustments : t \in Slots /\ t # CashOut
    BY SlotFacts
  <2> QED
    BY <1>3, <1>4, <1>5, <2>1, <2>2
<1>7. Kinds(new, owed, settled)
  BY <1>4, <1>5 DEF Sound, Kinds
<1>8. ShareRows(new, owed)
  BY <1>6, Zenon DEF Sound, ShareRows, On
<1>9. CashRow(new, owed)
  BY <1>6 DEF CashRow
<1>10. BillRow(new, owed, r)
  <2>1. \A l \in Shares : lends[l] # None => lends[l].txn \in {Bill, Cut(l)}
    BY Zenon DEF Sound, ShareRows
  <2>2. \A l \in Shares : lends[l] # None => new[lends[l].txn] = rows[lends[l].txn]
    BY <1>6, <2>1
  <2>3. \A l \in Shares : On(owed, l, Bill) <=> On(lends, l, Bill)
    BY <1>6 DEF On
  <2>4. new[Bill] = rows[Bill] /\ \A l \in Shares : owed[l] = lends[l]
    BY <1>6
  <2>5. BillRow(rows, lends, r)
    BY DEF Sound
  <2> QED
    BY <2>2, <2>3, <2>4, <2>5 DEF BillRow
<1>11. PaidRows(new, owed, settled, r)
  <2>1. ASSUME NEW t \in Slots, settled[t] # None
        PROVE  /\ t \in {Bill, Credit} \cup Adjustments /\ new[t] # None
               /\ settled[t].pin # Overall => owed[settled[t].pin] # None
               /\ t \in {Bill, Credit} \ r => new[t].type = "lend_repayment"
    <3>1. /\ t \in {Bill, Credit} \cup Adjustments /\ rows[t] # None
          /\ settled[t].pin # Overall => lends[settled[t].pin] # None
          /\ t \in {Bill, Credit} \ r => rows[t].type = "lend_repayment"
      BY <2>1 DEF Sound, PaidRows
    <3>2. settled[t].pin \in LendIds \cup {Overall}
      BY <2>1 DEF Sound, Kinds, PaySet
    <3>3. settled[t].pin # Overall => owed[settled[t].pin] # None
      BY <1>5, <2>1, <3>1, <3>2
    <3> QED
      BY <1>6, <3>1, <3>3
  <2>2. ASSUME NEW t \in Adjustments, new[t] # None
        PROVE  settled[t] # None /\ new[t].type = "writeoff"
    BY <1>6, <2>2 DEF Sound, PaidRows
  <2> QED
    BY <1>6, <2>1, <2>2, Zenon DEF Sound, PaidRows
<1>12. Sound(new, owed, settled, r)
  BY <1>7, <1>8, <1>9, <1>10, <1>11 DEF Sound
<1> QED
  BY <1>1, <1>12

(* A share is folded back into its bill, or the whole bill is an expense    *)
(* again.                                                                   *)
LEMMA UnmarkedSound ==
  ASSUME NEW rows, NEW lends, NEW settled, NEW r, Sound(rows, lends, settled, r), NEW l \in Shares, lends[l] # None,
         \A t \in Slots : settled[t] # None => settled[t].pin # l,
         NEW bill, bill = IF lends[l].txn = Bill THEN [rows[Bill] EXCEPT !.type = "expense"]
                          ELSE [rows[Bill] EXCEPT !.amount = rows[Bill].amount + rows[Cut(l)].amount]
  PROVE  Sound([rows EXCEPT ![Bill] = bill, ![Cut(l)] = None], [lends EXCEPT ![l] = None], settled, r)
<1>1. /\ lends[l] \in LendSet /\ rows[Bill] \in RowSet /\ Cut(l) # Bill /\ Cut(l) \in Slots
      /\ lends[l].txn \in {Bill, Cut(l)} /\ (lends[l].txn = Cut(l) => rows[Cut(l)] \in RowSet)
  BY OneBill
<1>2. bill \in RowSet /\ bill.day = rows[Bill].day /\ bill.type = IF lends[l].txn = Bill THEN "expense" ELSE rows[Bill].type
  <2>1. CASE lends[l].txn = Bill
    BY <1>1, <2>1 DEF RowSet, RowTypes, Plain
  <2>2. CASE lends[l].txn # Bill
    <3>1. rows[Bill].amount \in Nat /\ rows[Cut(l)].amount \in Nat
      BY <1>1, <2>2 DEF RowSet
    <3>2. rows[Bill].amount + rows[Cut(l)].amount \in Nat
      BY <3>1
    <3> QED
      BY <1>1, <2>2, <3>2 DEF RowSet
  <2> QED
    BY <2>1, <2>2
<1>3. rows[Bill] # None /\ rows[Bill].type # "writeoff"
  BY <1>1, NoneIsNoRow DEF Sound, PaidRows
<1>4. ASSUME Bill \notin r
      PROVE  /\ settled[Bill] = None /\ bill.type = "expense"
             /\ \A k \in Shares : k # l /\ lends[k] # None => lends[k].txn = Cut(k)
  <2>1. CASE lends[l].txn = Bill
    BY <1>2, <1>4, <2>1, OneBill
  <2>2. CASE lends[l].txn = Cut(l)
    <3>1. /\ settled[Bill] = None /\ rows[Bill].type = "expense"
          /\ \A k \in Shares : lends[k] # None => lends[k].txn = Cut(k)
      BY <1>4, <2>2, OneBill
    <3> QED
      BY <1>2, <3>1
  <2> QED
    BY <1>1, <2>1, <2>2
<1> DEFINE row == None
           lend == None
<1>5. /\ row # None <=> (lend # None /\ lend.txn = Cut(l))
      /\ lend # None => lend.txn \in {Bill, Cut(l)}
      /\ lend = None => \A t \in Slots : settled[t] # None => settled[t].pin # l
      /\ settled[Bill] # None /\ Bill \notin r => bill.type = "lend_repayment"
      /\ Bill \notin r =>
           /\ lend # None /\ lend.txn = Bill => bill = LendRow(lend) /\ \A k \in Shares : k # l => lends[k] = None
           /\ lend # None /\ lend.txn = Cut(l) => row = LendRow(lend) /\ bill.type = "expense" /\ lend.day = bill.day
           /\ \A k \in Shares : k # l /\ lends[k] # None =>
                lends[k].txn = Cut(k) /\ bill.type = "expense" /\ bill.day = rows[Bill].day
           /\ bill.type = "lend" => lend # None /\ lend.txn = Bill
  BY <1>2, <1>4
<1>6. row \in {None} \cup RowSet /\ lend \in {None} \cup LendSet /\ bill.type # "writeoff"
  BY <1>2, <1>3
<1>7. Sound([rows EXCEPT ![Bill] = bill, ![Cut(l)] = row], [lends EXCEPT ![l] = lend], settled, r)
  <2> HIDE DEF row, lend
  <2> QED
    BY <1>2, <1>3, <1>5, <1>6, OneShare
<1> QED
  BY <1>7

(* A share, or the whole bill, is someone else's.                           *)
LEMMA ReassignedSound ==
  ASSUME NEW rows, NEW lends, NEW settled, NEW r, Sound(rows, lends, settled, r), NEW l \in Shares, lends[l] # None,
         NEW p \in People, NEW amount \in Nat, NEW day \in Nat
  PROVE  /\ lends[l].txn # Bill => Sound(rows, [lends EXCEPT ![l] = [lends[l] EXCEPT !.who = p]], settled, r)
         /\ lends[l].txn = Bill =>
              Sound([rows EXCEPT ![Bill] = [rows[Bill] EXCEPT !.amount = amount, !.day = day]],
                    [lends EXCEPT ![l] = [lends[l] EXCEPT !.who = p, !.principal = amount, !.day = day]], settled, r)
<1>1. /\ lends[l] \in LendSet /\ rows[Bill] \in RowSet /\ Cut(l) # Bill /\ Cut(l) \in Slots /\ Bill \in Slots
      /\ lends[l].txn \in {Bill, Cut(l)} /\ (lends[l].txn = Cut(l) => rows[Cut(l)] \in RowSet)
      /\ lends[l].txn = Bill => rows[Cut(l)] = None
  BY OneBill, SlotFacts
<1>2. rows[Bill] # None /\ rows[Bill].type # "writeoff"
  BY <1>1, NoneIsNoRow DEF Sound, PaidRows
<1>3. CASE lends[l].txn # Bill
  <2>1. PICK bill, row, lend : bill = rows[Bill] /\ row = rows[Cut(l)] /\ lend = [lends[l] EXCEPT !.who = p]
    OBVIOUS
  <2>2. lend \in LendSet /\ lend.txn = Cut(l) /\ lend.day = lends[l].day /\ lend.principal = lends[l].principal
    BY <1>1, <1>3, <2>1 DEF LendSet
  <2>3. lend # None /\ row # None /\ row \in {None} \cup RowSet /\ bill \in RowSet /\ bill.type # "writeoff" /\ lend \in {None} \cup LendSet
    BY <1>1, <1>2, <1>3, <2>1, <2>2, NoneIsNoRow
  <2>4. ASSUME Bill \notin r
        PROVE  /\ settled[Bill] = None /\ row = LendRow(lend) /\ bill.type = "expense" /\ lend.day = bill.day
               /\ \A k \in Shares : k # l /\ lends[k] # None => lends[k].txn = Cut(k)
    <3>1. /\ settled[Bill] = None /\ rows[Cut(l)] = LendRow(lends[l]) /\ rows[Bill].type = "expense" /\ lends[l].day = rows[Bill].day
          /\ \A k \in Shares : lends[k] # None => lends[k].txn = Cut(k)
      BY <1>1, <1>3, <2>4, OneBill
    <3> QED
      BY <2>1, <2>2, <3>1 DEF LendRow
  <2>5. /\ row # None <=> (lend # None /\ lend.txn = Cut(l))
        /\ lend # None => lend.txn \in {Bill, Cut(l)}
        /\ lend = None => \A t \in Slots : settled[t] # None => settled[t].pin # l
        /\ settled[Bill] # None /\ Bill \notin r => bill.type = "lend_repayment"
        /\ Bill \notin r =>
             /\ lend # None /\ lend.txn = Bill => bill = LendRow(lend) /\ \A k \in Shares : k # l => lends[k] = None
             /\ lend # None /\ lend.txn = Cut(l) => row = LendRow(lend) /\ bill.type = "expense" /\ lend.day = bill.day
             /\ \A k \in Shares : k # l /\ lends[k] # None =>
                  lends[k].txn = Cut(k) /\ bill.type = "expense" /\ bill.day = rows[Bill].day
             /\ bill.type = "lend" => lend # None /\ lend.txn = Bill
    BY <1>1, <2>1, <2>2, <2>3, <2>4
  <2>6. Sound([rows EXCEPT ![Bill] = bill, ![Cut(l)] = row], [lends EXCEPT ![l] = lend], settled, r)
    BY <1>2, <2>3, <2>5, OneShare
  <2>7. [rows EXCEPT ![Bill] = bill, ![Cut(l)] = row] = rows
    BY <2>1 DEF Sound, Kinds
  <2> QED
    BY <1>3, <2>1, <2>6, <2>7
<1>4. CASE lends[l].txn = Bill
  <2>1. PICK bill, row, lend : /\ bill = [rows[Bill] EXCEPT !.amount = amount, !.day = day] /\ row = None
                               /\ lend = [lends[l] EXCEPT !.who = p, !.principal = amount, !.day = day]
    OBVIOUS
  <2>2. lend \in LendSet /\ lend.txn = Bill /\ lend.day = day /\ lend.principal = amount
    BY <1>1, <1>4, <2>1 DEF LendSet
  <2>3. bill \in RowSet /\ bill.type = rows[Bill].type /\ bill = [type |-> rows[Bill].type, amount |-> amount, day |-> day]
    BY <1>1, <2>1 DEF RowSet
  <2>4. lend # None /\ row \in {None} \cup RowSet /\ bill.type # "writeoff" /\ lend \in {None} \cup LendSet
    BY <1>2, <2>1, <2>2, <2>3, NoneIsNoRow
  <2>5. ASSUME Bill \notin r
        PROVE  settled[Bill] = None /\ bill = LendRow(lend) /\ \A k \in Shares : k # l => lends[k] = None
    <3>1. settled[Bill] = None /\ rows[Bill] = LendRow(lends[l]) /\ \A k \in Shares : k # l => lends[k] = None
      BY <1>4, <2>5, OneBill
    <3>2. rows[Bill].type = "lend"
      BY <3>1 DEF LendRow
    <3> QED
      BY <2>2, <2>3, <3>1, <3>2 DEF LendRow
  <2>6. /\ row # None <=> (lend # None /\ lend.txn = Cut(l))
        /\ lend # None => lend.txn \in {Bill, Cut(l)}
        /\ lend = None => \A t \in Slots : settled[t] # None => settled[t].pin # l
        /\ settled[Bill] # None /\ Bill \notin r => bill.type = "lend_repayment"
        /\ Bill \notin r =>
             /\ lend # None /\ lend.txn = Bill => bill = LendRow(lend) /\ \A k \in Shares : k # l => lends[k] = None
             /\ lend # None /\ lend.txn = Cut(l) => row = LendRow(lend) /\ bill.type = "expense" /\ lend.day = bill.day
             /\ \A k \in Shares : k # l /\ lends[k] # None =>
                  lends[k].txn = Cut(k) /\ bill.type = "expense" /\ bill.day = rows[Bill].day
             /\ bill.type = "lend" => lend # None /\ lend.txn = Bill
    BY <1>1, <2>1, <2>2, <2>4, <2>5
  <2>7. Sound([rows EXCEPT ![Bill] = bill, ![Cut(l)] = row], [lends EXCEPT ![l] = lend], settled, r)
    BY <1>2, <2>3, <2>4, <2>6, OneShare
  <2>8. [rows EXCEPT ![Bill] = bill, ![Cut(l)] = row] = [rows EXCEPT ![Bill] = bill]
    BY <1>1, <1>4, <2>1 DEF Sound, Kinds
  <2> QED
    BY <1>4, <2>1, <2>7, <2>8
<1> QED
  BY <1>3, <1>4

(* Shares are cut from an expense for people who had none.                  *)
SplitRows(rows, D, share, rest) ==
  [t \in Slots |-> IF t = Bill THEN [rows[t] EXCEPT !.amount = rest]
                   ELSE IF \E l \in D : t = Cut(l)
                        THEN [type |-> "lend", amount |-> share[t - 5], day |-> rows[Bill].day] ELSE rows[t]]
SplitLends(rows, lends, D, who, share) ==
  [l \in LendIds |-> IF l \in D THEN [who |-> who[l], principal |-> share[l], txn |-> Cut(l), day |-> rows[Bill].day]
                     ELSE lends[l]]

LEMMA SplitSound ==
  ASSUME NEW rows, NEW lends, NEW settled, NEW r, Sound(rows, lends, settled, r),
         NEW D \in SUBSET Shares, \A l \in D : lends[l] = None,
         rows[Bill] # None, rows[Bill].type = "expense", NEW rest \in Nat,
         NEW who \in [D -> People], NEW share \in [D -> Nat],
         NEW new, new = SplitRows(rows, D, share, rest), NEW owed, owed = SplitLends(rows, lends, D, who, share)
  PROVE  Sound(new, owed, settled, r)
<1> USE DEF SplitRows, SplitLends
<1>1. /\ Bill \in Slots /\ rows[Bill] \in RowSet /\ \A l \in Shares : l \in LendIds /\ l # CashLend /\ Cut(l) # Bill
                                                                      /\ Cut(l) \in Slots /\ Cut(l) - 5 = l /\ Cut(l) > 5
      /\ CashLend \in LendIds /\ \A l, k \in Shares : Cut(l) = Cut(k) => l = k
  BY SlotFacts DEF Sound, Kinds
<1>2. PICK bill : bill = [rows[Bill] EXCEPT !.amount = rest]
  OBVIOUS
<1>3. bill \in RowSet /\ bill.type = "expense" /\ bill.day = rows[Bill].day /\ bill # None
  <2>1. bill \in RowSet /\ bill.type = "expense" /\ bill.day = rows[Bill].day
    BY <1>1, <1>2 DEF RowSet
  <2> QED
    BY <2>1, NoneIsNoRow
<1>4. PICK rowOf : rowOf = [l \in D |-> [type |-> "lend", amount |-> share[l], day |-> rows[Bill].day]]
  OBVIOUS
<1>5. PICK lendOf : lendOf = [l \in D |-> [who |-> who[l], principal |-> share[l], txn |-> Cut(l), day |-> rows[Bill].day]]
  OBVIOUS
<1>6. rows[Bill].day \in Nat
  BY <1>1 DEF RowSet
<1>7. \A l \in D : /\ lendOf[l] \in LendSet /\ rowOf[l] = LendRow(lendOf[l]) /\ lendOf[l].txn = Cut(l)
                   /\ lendOf[l].day = bill.day
  <2> SUFFICES ASSUME NEW l \in D
               PROVE  /\ lendOf[l] \in LendSet /\ rowOf[l] = LendRow(lendOf[l]) /\ lendOf[l].txn = Cut(l)
                      /\ lendOf[l].day = bill.day
    OBVIOUS
  <2>1. lendOf[l] = [who |-> who[l], principal |-> share[l], txn |-> Cut(l), day |-> rows[Bill].day]
    BY <1>5
  <2>2. rowOf[l] = [type |-> "lend", amount |-> share[l], day |-> rows[Bill].day]
    BY <1>4
  <2>3. who[l] \in People /\ share[l] \in Nat /\ Cut(l) \in Slots
    BY <1>1
  <2> QED
    BY <1>3, <1>6, <2>1, <2>2, <2>3 DEF LendSet, LendRow
<1>8. \A l \in D : lendOf[l] # None /\ rowOf[l] # None /\ rowOf[l] \in RowSet
  BY <1>7, LendRows, NoneIsNoRow
<1>9. /\ new[Bill] = bill
      /\ \A l \in D : new[Cut(l)] = rowOf[l]
      /\ \A t \in Slots : t # Bill /\ (\A l \in D : t # Cut(l)) => new[t] = rows[t]
  <2>1. new[Bill] = bill
    BY <1>1, <1>2
  <2>2. ASSUME NEW l \in D
        PROVE  new[Cut(l)] = rowOf[l]
    <3>1. new[Cut(l)] = [type |-> "lend", amount |-> share[Cut(l) - 5], day |-> rows[Bill].day]
      BY <1>1
    <3>2. Cut(l) - 5 = l
      BY <1>1
    <3> QED
      BY <1>4, <3>1, <3>2
  <2>3. \A t \in Slots : t # Bill /\ (\A l \in D : t # Cut(l)) => new[t] = rows[t]
    OBVIOUS
  <2> QED
    BY <2>1, <2>2, <2>3
<1>10. new \in [Slots -> {None} \cup RowSet]
  <2>1. ASSUME NEW t \in Slots
        PROVE  new[t] \in {None} \cup RowSet
    <3>1. rows[t] \in {None} \cup RowSet
      BY DEF Sound, Kinds
    <3>2. CASE t = Bill
      BY <1>3, <1>9, <3>2
    <3>3. CASE \E l \in D : t = Cut(l)
      <4>1. PICK l \in D : t = Cut(l)
        BY <3>3
      <4> QED
        BY <1>8, <1>9, <4>1, Zenon
    <3> QED
      BY <1>9, <3>1, <3>2, <3>3
  <2> QED
    BY <2>1
<1>11. /\ \A l \in D : owed[l] = lendOf[l]
       /\ \A l \in LendIds : l \notin D => owed[l] = lends[l]
  BY <1>1, <1>5
<1>12. owed \in [LendIds -> {None} \cup LendSet]
  <2>1. ASSUME NEW l \in LendIds
        PROVE  owed[l] \in {None} \cup LendSet
    <3>1. lends[l] \in {None} \cup LendSet
      BY DEF Sound, Kinds
    <3> QED
      BY <1>7, <1>11, <3>1
  <2> QED
    BY <2>1
<1>13. \A l \in Shares : l \notin D => new[Cut(l)] = rows[Cut(l)] /\ owed[l] = lends[l]
  BY <1>1, <1>9, <1>11
<1>14. ShareRows(new, owed)
  <2> SUFFICES ASSUME NEW l \in Shares
               PROVE  /\ owed[l] # None => owed[l].txn \in {Bill, Cut(l)} /\ new[Bill] # None
                      /\ new[Cut(l)] # None <=> On(owed, l, Cut(l))
    BY Zenon DEF ShareRows
  <2>1. CASE l \in D
    <3>1. owed[l] = lendOf[l] /\ new[Cut(l)] = rowOf[l] /\ lendOf[l].txn = Cut(l) /\ lendOf[l] # None /\ rowOf[l] # None
      BY <1>7, <1>8, <1>9, <1>11, <2>1
    <3> QED
      BY <1>3, <1>9, <3>1, Zenon DEF On
  <2>2. CASE l \notin D
    <3>1. new[Cut(l)] = rows[Cut(l)] /\ owed[l] = lends[l]
      BY <1>13, <2>2
    <3>2. /\ lends[l] # None => lends[l].txn \in {Bill, Cut(l)}
          /\ rows[Cut(l)] # None <=> On(lends, l, Cut(l))
      BY Zenon DEF Sound, ShareRows
    <3> QED
      BY <1>3, <1>9, <3>1, <3>2, Zenon DEF On
  <2> QED
    BY <2>1, <2>2
<1>15. BillRow(new, owed, r)
  <2> SUFFICES ASSUME Bill \notin r
               PROVE  /\ \A k \in Shares : owed[k] # None =>
                           /\ new[owed[k].txn] = LendRow(owed[k])
                           /\ owed[k].txn = Cut(k) => new[Bill].type = "expense" /\ owed[k].day = new[Bill].day
                      /\ \A k, j \in Shares : On(owed, k, Bill) /\ On(owed, j, Bill) => k = j
                      /\ new[Bill] # None /\ new[Bill].type = "lend" => \E k \in Shares : On(owed, k, Bill)
    BY Zenon DEF BillRow
  <2>1. ASSUME NEW k \in Shares, owed[k] # None
        PROVE  /\ owed[k].txn = Cut(k) /\ new[owed[k].txn] = LendRow(owed[k])
               /\ owed[k].day = new[Bill].day
    <3>1. CASE k \in D
      <4>1. /\ owed[k] = lendOf[k] /\ new[Cut(k)] = rowOf[k] /\ lendOf[k].txn = Cut(k)
            /\ rowOf[k] = LendRow(lendOf[k]) /\ lendOf[k].day = bill.day
        BY <1>7, <1>9, <1>11, <3>1
      <4> QED
        BY <1>9, <4>1, Zenon
    <3>2. CASE k \notin D
      <4>1. new[Cut(k)] = rows[Cut(k)] /\ owed[k] = lends[k]
        BY <1>13, <3>2
      <4>2. lends[k].txn = Cut(k)
        <5>1. lends[k].txn \in {Bill, Cut(k)}
          BY <2>1, <4>1 DEF Sound, ShareRows
        <5>2. lends[k].txn = Bill => rows[Bill] = LendRow(lends[k])
          BY <2>1, <4>1, OneBill
        <5> QED
          BY <5>1, <5>2 DEF LendRow
      <4>3. rows[Cut(k)] = LendRow(lends[k]) /\ lends[k].day = rows[Bill].day
        BY <2>1, <4>1, <4>2, OneBill
      <4>4. new[Bill].day = rows[Bill].day
        BY <1>3, <1>9
      <4> QED
        BY <4>1, <4>2, <4>3, <4>4, Zenon
    <3> QED
      BY <3>1, <3>2
  <2>2. ASSUME NEW k \in Shares
        PROVE  ~ On(owed, k, Bill)
    <3>1. Cut(k) # Bill
      BY <1>1
    <3>2. owed[k] # None => owed[k].txn = Cut(k)
      BY <2>1
    <3> QED
      BY <3>1, <3>2, Zenon DEF On
  <2> QED
    BY <1>3, <1>9, <2>1, <2>2
<1>16. \A t \in Slots : t # Bill /\ ~ (t > 5) => new[t] = rows[t]
  BY <1>1, <1>9
<1>17. owed[CashLend] = lends[CashLend]
  BY <1>1, <1>11
<1>18. settled[Bill] # None => new[Bill] # None /\ (Bill \notin r => new[Bill].type = "lend_repayment")
  BY <1>1, <1>3, <1>9 DEF Sound, PaidRows
<1>19. ASSUME NEW t \in Slots, settled[t] # None, settled[t].pin # Overall
       PROVE  owed[settled[t].pin] # None
  <2>1. settled[t].pin \in LendIds /\ lends[settled[t].pin] # None
    BY <1>19 DEF Sound, Kinds, PaySet, PaidRows
  <2> QED
    BY <1>11, <2>1
<1>20. new[Bill] # None => new[Bill].type # "writeoff"
  BY <1>3, <1>9
<1>21. PICK new2, owed2 : new2 = new /\ owed2 = owed
  OBVIOUS
<1>22. /\ new2 \in [Slots -> {None} \cup RowSet] /\ owed2 \in [LendIds -> {None} \cup LendSet]
       /\ \A t \in Slots : t # Bill /\ ~ (t > 5) => new2[t] = rows[t]
       /\ owed2[CashLend] = lends[CashLend]
       /\ new2[Bill] # None => new2[Bill].type # "writeoff"
       /\ settled[Bill] # None => new2[Bill] # None /\ (Bill \notin r => new2[Bill].type = "lend_repayment")
       /\ \A t \in Slots : settled[t] # None /\ settled[t].pin # Overall => owed2[settled[t].pin] # None
       /\ ShareRows(new2, owed2) /\ BillRow(new2, owed2, r)
  BY <1>10, <1>12, <1>14, <1>15, <1>16, <1>17, <1>18, <1>19, <1>20, <1>21, Zenon
<1>23. Sound(new2, owed2, settled, r)
  BY <1>22, SharesSound
<1> QED
  BY <1>21, <1>23

(* The bill is edited, and its shares follow its date.                      *)
SyncedRows(rows, bill) ==
  [t \in Slots |-> IF t = Bill THEN bill
                   ELSE IF t > 5 /\ rows[t] # None THEN [rows[t] EXCEPT !.day = bill.day] ELSE rows[t]]
SyncedLends(lends, bill) ==
  [l \in LendIds |-> IF lends[l] # None /\ lends[l].txn > 5 THEN [lends[l] EXCEPT !.day = bill.day] ELSE lends[l]]

LEMMA SyncedSound ==
  ASSUME NEW rows, NEW lends, NEW settled, NEW r, Sound(rows, lends, settled, r),
         rows[Bill] # None, NEW bill \in RowSet, bill.type # "writeoff",
         Bill \notin r => /\ settled[Bill] = None
                          /\ \/ bill.type = rows[Bill].type /\ rows[Bill].type # "lend"
                             \/ bill.type # "lend" /\ \A l \in Shares : lends[l] = None,
         NEW new, new = SyncedRows(rows, bill), NEW owed, owed = SyncedLends(lends, bill)
  PROVE  Sound(new, owed, settled, r)
<1> USE DEF SyncedRows, SyncedLends
<1>1. /\ Bill \in Slots /\ ~ (Bill > 5) /\ CashLend \in LendIds /\ CashLend \notin Shares
      /\ \A l \in Shares : l \in LendIds /\ Cut(l) \in Slots /\ Cut(l) > 5 /\ Cut(l) # Bill
  <2>1. ~ (Bill > 5)
    BY DEF Bill
  <2> QED
    BY <2>1, SlotFacts
<1>2. /\ new[Bill] = bill
      /\ \A t \in Slots : t # Bill /\ t > 5 /\ rows[t] # None => new[t] = [rows[t] EXCEPT !.day = bill.day]
      /\ \A t \in Slots : t # Bill /\ ~ (t > 5 /\ rows[t] # None) => new[t] = rows[t]
  BY <1>1
<1>3. \A t \in Slots : rows[t] \in {None} \cup RowSet
  BY DEF Sound, Kinds
<1>4. bill # None /\ bill.day \in Nat
  BY NoneIsNoRow DEF RowSet
<1>5. ASSUME NEW t \in Slots
      PROVE  new[t] \in {None} \cup RowSet /\ (t # Bill => (new[t] = None <=> rows[t] = None))
  <2>1. CASE t = Bill
    BY <1>2, <2>1
  <2>2. CASE t # Bill /\ t > 5 /\ rows[t] # None
    <3>1. rows[t] \in RowSet /\ new[t] = [rows[t] EXCEPT !.day = bill.day]
      BY <1>2, <1>3, <2>2
    <3>2. new[t] \in RowSet
      BY <1>4, <3>1 DEF RowSet
    <3> QED
      BY <2>2, <3>2, NoneIsNoRow
  <2>3. CASE t # Bill /\ ~ (t > 5 /\ rows[t] # None)
    BY <1>2, <1>3, <2>3
  <2> QED
    BY <2>1, <2>2, <2>3
<1>6. new \in [Slots -> {None} \cup RowSet]
  BY <1>5
<1>7. /\ \A l \in LendIds : lends[l] # None /\ lends[l].txn > 5 => owed[l] = [lends[l] EXCEPT !.day = bill.day]
      /\ \A l \in LendIds : ~ (lends[l] # None /\ lends[l].txn > 5) => owed[l] = lends[l]
  OBVIOUS
<1>8. \A l \in LendIds : lends[l] \in {None} \cup LendSet
  BY DEF Sound, Kinds
<1>9. ASSUME NEW l \in LendIds
      PROVE  /\ owed[l] \in {None} \cup LendSet
             /\ owed[l] = None <=> lends[l] = None
             /\ lends[l] # None => owed[l].txn = lends[l].txn /\ owed[l].principal = lends[l].principal
  <2>1. CASE lends[l] # None /\ lends[l].txn > 5
    <3>1. lends[l] \in LendSet /\ owed[l] = [lends[l] EXCEPT !.day = bill.day]
      BY <1>7, <1>8, <2>1
    <3>2. owed[l] \in LendSet /\ owed[l].txn = lends[l].txn /\ owed[l].principal = lends[l].principal
      BY <1>4, <3>1 DEF LendSet
    <3> QED
      BY <2>1, <3>2, NoneIsNoRow
  <2>2. CASE ~ (lends[l] # None /\ lends[l].txn > 5)
    BY <1>7, <1>8, <2>2
  <2> QED
    BY <2>1, <2>2
<1>10. owed \in [LendIds -> {None} \cup LendSet]
  BY <1>9
<1>11. ShareRows(new, owed)
  <2> SUFFICES ASSUME NEW l \in Shares
               PROVE  /\ owed[l] # None => owed[l].txn \in {Bill, Cut(l)} /\ new[Bill] # None
                      /\ new[Cut(l)] # None <=> On(owed, l, Cut(l))
    BY Zenon DEF ShareRows
  <2>1. /\ lends[l] # None => lends[l].txn \in {Bill, Cut(l)} /\ rows[Bill] # None
        /\ rows[Cut(l)] # None <=> On(lends, l, Cut(l))
    BY Zenon DEF Sound, ShareRows
  <2>2. /\ owed[l] = None <=> lends[l] = None
        /\ lends[l] # None => owed[l].txn = lends[l].txn
        /\ new[Cut(l)] = None <=> rows[Cut(l)] = None
    BY <1>1, <1>5, <1>9
  <2> QED
    BY <1>2, <1>4, <2>1, <2>2 DEF On
<1>12. BillRow(new, owed, r)
  <2> SUFFICES ASSUME Bill \notin r
               PROVE  /\ \A k \in Shares : owed[k] # None =>
                           /\ new[owed[k].txn] = LendRow(owed[k])
                           /\ owed[k].txn = Cut(k) => new[Bill].type = "expense" /\ owed[k].day = new[Bill].day
                      /\ \A k, j \in Shares : On(owed, k, Bill) /\ On(owed, j, Bill) => k = j
                      /\ new[Bill] # None /\ new[Bill].type = "lend" => \E k \in Shares : On(owed, k, Bill)
    BY Zenon DEF BillRow
  <2>1. ASSUME NEW k \in Shares, owed[k] # None
        PROVE  /\ owed[k].txn = Cut(k) /\ new[owed[k].txn] = LendRow(owed[k])
               /\ new[Bill].type = "expense" /\ owed[k].day = new[Bill].day
    <3>1. lends[k] # None /\ k \in LendIds
      BY <1>1, <1>9, <2>1
    <3>2. bill.type = rows[Bill].type /\ rows[Bill].type # "lend"
      BY <3>1
    <3>3. lends[k].txn = Cut(k)
      <4>1. lends[k].txn \in {Bill, Cut(k)}
        BY <3>1 DEF Sound, ShareRows
      <4>2. lends[k].txn = Bill => rows[Bill] = LendRow(lends[k])
        BY <3>1, OneBill
      <4> QED
        BY <3>2, <4>1, <4>2 DEF LendRow
    <3>4. rows[Cut(k)] = LendRow(lends[k]) /\ rows[Bill].type = "expense" /\ rows[Cut(k)] # None /\ lends[k] \in LendSet
      BY <3>1, <3>3, OneBill, NoneIsNoRow
    <3>5. new[Cut(k)] = [rows[Cut(k)] EXCEPT !.day = bill.day]
      BY <1>1, <1>2, <3>4
    <3>6. owed[k] = [lends[k] EXCEPT !.day = bill.day]
      BY <1>1, <1>7, <3>1, <3>3
    <3>7. owed[k].txn = Cut(k) /\ owed[k].principal = lends[k].principal /\ owed[k].day = bill.day
      BY <3>3, <3>4, <3>6 DEF LendSet
    <3>8. new[Cut(k)] = LendRow(owed[k])
      BY <3>4, <3>5, <3>7 DEF LendRow
    <3> QED
      BY <1>2, <3>2, <3>4, <3>7, <3>8
  <2>2. ASSUME NEW k \in Shares
        PROVE  ~ On(owed, k, Bill)
    <3>1. Cut(k) # Bill
      BY <1>1
    <3>2. owed[k] # None => owed[k].txn = Cut(k)
      BY <2>1
    <3> QED
      BY <3>1, <3>2, Zenon DEF On
  <2>3. new[Bill].type # "lend"
    BY <1>2
  <2> QED
    BY <2>1, <2>2, <2>3
<1>13. \A t \in Slots : t # Bill /\ ~ (t > 5) => new[t] = rows[t]
  BY <1>2
<1>14. owed[CashLend] = lends[CashLend]
  <2>1. lends[CashLend] # None => lends[CashLend].txn = CashOut
    BY DEF Sound, CashRow
  <2>2. ~ (CashOut > 5)
    BY DEF CashOut
  <2> QED
    BY <1>1, <1>7, <2>1, <2>2
<1>15. settled[Bill] # None => new[Bill] # None /\ (Bill \notin r => new[Bill].type = "lend_repayment")
  BY <1>2, <1>4
<1>16. ASSUME NEW t \in Slots, settled[t] # None, settled[t].pin # Overall
       PROVE  owed[settled[t].pin] # None
  <2>1. settled[t].pin \in LendIds /\ lends[settled[t].pin] # None
    BY <1>16 DEF Sound, Kinds, PaySet, PaidRows
  <2> QED
    BY <1>9, <2>1
<1>17. new[Bill] # None => new[Bill].type # "writeoff"
  BY <1>2
<1>18. PICK new2, owed2 : new2 = new /\ owed2 = owed
  OBVIOUS
<1>19. /\ new2 \in [Slots -> {None} \cup RowSet] /\ owed2 \in [LendIds -> {None} \cup LendSet]
       /\ \A t \in Slots : t # Bill /\ ~ (t > 5) => new2[t] = rows[t]
       /\ owed2[CashLend] = lends[CashLend]
       /\ new2[Bill] # None => new2[Bill].type # "writeoff"
       /\ settled[Bill] # None => new2[Bill] # None /\ (Bill \notin r => new2[Bill].type = "lend_repayment")
       /\ \A t \in Slots : settled[t] # None /\ settled[t].pin # Overall => owed2[settled[t].pin] # None
       /\ ShareRows(new2, owed2) /\ BillRow(new2, owed2, r)
  BY <1>6, <1>10, <1>11, <1>12, <1>13, <1>14, <1>15, <1>16, <1>17, <1>18, Zenon
<1>20. Sound(new2, owed2, settled, r)
  BY <1>19, SharesSound
<1> QED
  BY <1>18, <1>20

Good(b, r) == IsBook(b) /\ SoundBook(b, r) /\ PaidUp(b, r)

(* A change of the tables that nobody else's lends and payments see.        *)
Touches(b, c, P, r, s) ==
  /\ IsBook(c) /\ SoundBook(c, s) /\ c.covers \in [Slots -> {None} \cup CoverSet]
  /\ \A t \in Slots : c.settled[t] = None => c.covers[t] = None
  /\ \A q \in People \ P : /\ SamePaid(b, c, q, r, s)
                           /\ \A l \in Lent(b, q) : c.lends[l].day = b.lends[l].day

LEMMA RebalancedGood ==
  ASSUME NEW b, NEW c, NEW P, NEW r, NEW s, Good(b, r), Touches(b, c, P, r, s), \A p \in P : InOrder(c, p)
  PROVE  Good(Rebalanced(c, P), s)
<1>1. PICK d : d = Rebalanced(c, P)
  OBVIOUS
<1>2. IsBook(d) /\ SoundBook(d, s) /\ PaidUp(d, s)
  BY <1>1, Rebalances DEF Good, Touches
<1> QED
  BY <1>1, <1>2 DEF Good

LEMMA TouchesThen ==
  ASSUME NEW b, NEW c, NEW d, NEW P, NEW r, NEW s, NEW u, Touches(b, c, P, r, s), Touches(c, d, P, s, u)
  PROVE  Touches(b, d, P, r, u)
<1>1. ASSUME NEW q \in People \ P
      PROVE  SamePaid(b, d, q, r, u) /\ \A l \in Lent(b, q) : d.lends[l].day = b.lends[l].day
  <2>1. /\ SamePaid(b, c, q, r, s) /\ \A l \in Lent(b, q) : c.lends[l].day = b.lends[l].day
        /\ SamePaid(c, d, q, s, u) /\ \A l \in Lent(c, q) : d.lends[l].day = c.lends[l].day
    BY DEF Touches
  <2>2. /\ Lent(c, q) = Lent(b, q) /\ Payments(c, q) = Payments(b, q)
        /\ Lent(d, q) = Lent(c, q) /\ Payments(d, q) = Payments(c, q)
    BY <2>1 DEF SamePaid
  <2>3. ASSUME NEW t \in Payments(b, q)
        PROVE  /\ d.covers[t] = b.covers[t]
               /\ \/ d.settled[t].pin = b.settled[t].pin
                  \/ d.settled[t].pin \notin Lent(b, q) /\ b.settled[t].pin \notin Lent(b, q)
               /\ t \notin u => t \notin r /\ d.rows[t].amount = b.rows[t].amount /\ d.rows[t].day = b.rows[t].day
    <3>1. /\ c.covers[t] = b.covers[t]
          /\ \/ c.settled[t].pin = b.settled[t].pin
             \/ c.settled[t].pin \notin Lent(b, q) /\ b.settled[t].pin \notin Lent(b, q)
          /\ t \notin s => t \notin r /\ c.rows[t].amount = b.rows[t].amount /\ c.rows[t].day = b.rows[t].day
      BY <2>1 DEF SamePaid
    <3>2. /\ d.covers[t] = c.covers[t]
          /\ \/ d.settled[t].pin = c.settled[t].pin
             \/ d.settled[t].pin \notin Lent(c, q) /\ c.settled[t].pin \notin Lent(c, q)
          /\ t \notin u => t \notin s /\ d.rows[t].amount = c.rows[t].amount /\ d.rows[t].day = c.rows[t].day
      BY <2>1, <2>2 DEF SamePaid
    <3> QED
      BY <2>2, <3>1, <3>2
  <2>4. \A l \in Lent(b, q) : d.lends[l].principal = b.lends[l].principal
    BY <2>1, <2>2 DEF SamePaid
  <2> QED
    BY <2>1, <2>2, <2>3, <2>4, Zenon DEF SamePaid
<1> QED
  BY <1>1, Zenon DEF Touches

LEMMA TouchesOnly ==
  ASSUME NEW b, NEW c, NEW P, NEW r, NEW s, r \subseteq s, SoundBook(b, r), SoundBook(c, s), IsBook(c),
         c.covers \in [Slots -> {None} \cup CoverSet], \A t \in Slots : c.settled[t] = None => c.covers[t] = None,
         \A l \in LendIds : \/ c.lends[l] = b.lends[l]
                            \/ (b.lends[l] # None => b.lends[l].who \in P) /\ (c.lends[l] # None => c.lends[l].who \in P),
         \A t \in Slots : \/ (b.settled[t] # None => b.settled[t].who \in P) /\ (c.settled[t] # None => c.settled[t].who \in P)
                          \/ /\ b.settled[t] # None /\ c.settled[t] # None /\ c.settled[t].who = b.settled[t].who
                             /\ c.covers[t] = b.covers[t] /\ (t \notin s => c.rows[t] = b.rows[t])
                             /\ \/ c.settled[t].pin = b.settled[t].pin
                                \/ /\ c.settled[t].pin \notin Lent(b, b.settled[t].who)
                                   /\ b.settled[t].pin \notin Lent(b, b.settled[t].who)
  PROVE  Touches(b, c, P, r, s)
<1>1. ASSUME NEW q \in People \ P
      PROVE  SamePaid(b, c, q, r, s) /\ \A l \in Lent(b, q) : c.lends[l].day = b.lends[l].day
  <2>1. Lent(c, q) = Lent(b, q) /\ \A l \in Lent(b, q) : c.lends[l] = b.lends[l]
    BY DEF Lent
  <2>2. Payments(c, q) = Payments(b, q)
    BY DEF Payments
  <2>3. ASSUME NEW t \in Payments(b, q)
        PROVE  /\ c.covers[t] = b.covers[t]
               /\ \/ c.settled[t].pin = b.settled[t].pin
                  \/ c.settled[t].pin \notin Lent(b, q) /\ b.settled[t].pin \notin Lent(b, q)
               /\ t \notin s => t \notin r /\ c.rows[t].amount = b.rows[t].amount /\ c.rows[t].day = b.rows[t].day
    <3>1. t \in Slots /\ b.settled[t] # None /\ b.settled[t].who = q /\ q \notin P
      BY DEF Payments
    <3> QED
      BY <3>1
  <2> QED
    BY <2>1, <2>2, <2>3, Zenon DEF SamePaid
<1> QED
  BY <1>1, Zenon DEF Touches

(* A book by its tables.                                                    *)
LEMMA BookIs ==
  ASSUME NEW b, IsBook(b)
  PROVE  \E rows, lends, settled, covers :
           /\ b = [rows |-> rows, lends |-> lends, settled |-> settled, covers |-> covers]
           /\ b.rows = rows /\ b.lends = lends /\ b.settled = settled /\ b.covers = covers
BY DEF IsBook

LEMMA CoversOf ==
  ASSUME NEW b, NEW r, Good(b, r)
  PROVE  /\ b.covers \in [Slots -> {None} \cup CoverSet]
         /\ \A t \in Slots : b.settled[t] = None => b.covers[t] = None
         /\ \A t \in Slots : b.covers[t] # None => /\ b.settled[t] # None /\ b.settled[t].pin = b.covers[t].lend
                                                   /\ b.covers[t].lend \in Lent(b, b.settled[t].who)
BY DEF Good, PaidUp, CoverFits

LEMMA SettledTouches ==
  ASSUME NEW b, NEW r, Good(b, r), NEW t \in {Bill, Credit}, b.rows[t] # None, b.rows[t].type = "income",
         b.settled[t] = None, NEW p \in People, NEW pin \in LendIds \cup {Overall}, pin # Overall => b.lends[pin] # None,
         NEW c, c = Settled(b, t, p, pin)
  PROVE  Touches(b, c, {p}, r, r)
<1>1. /\ c.rows = [b.rows EXCEPT ![t].type = "lend_repayment"] /\ c.lends = b.lends
      /\ c.settled = [b.settled EXCEPT ![t] = [who |-> p, pin |-> pin]] /\ c.covers = b.covers /\ IsBook(c)
  BY DEF Good, IsBook, Settled
<1>2. SoundBook(c, r)
  <2>1. Sound(b.rows, b.lends, b.settled, r)
    BY DEF Good, SoundBook
  <2>2. Sound(c.rows, b.lends, c.settled, r)
    BY <1>1, <2>1, SettledSound
  <2> QED
    BY <1>1, <2>2 DEF SoundBook
<1>3. t \in Slots /\ b.rows \in [Slots -> {None} \cup RowSet] /\ b.settled \in [Slots -> {None} \cup PaySet]
  BY SlotFacts DEF Good, SoundBook, Sound, Kinds
<1>4. /\ \A u \in Slots : u # t => c.rows[u] = b.rows[u] /\ c.settled[u] = b.settled[u]
      /\ c.settled[t].who = p /\ c.settled[t] = [who |-> p, pin |-> pin]
  BY <1>1, <1>3
<1>5. c.settled[t] # None
  <2>1. [who |-> p, pin |-> pin] \in PaySet
    BY DEF PaySet
  <2> QED
    BY <1>4, <2>1, NoneIsNoRow
<1>6. c.covers \in [Slots -> {None} \cup CoverSet] /\ \A u \in Slots : c.settled[u] = None => c.covers[u] = None
  BY <1>1, <1>4, <1>5, CoversOf
<1>7. SoundBook(b, r)
  BY DEF Good
<1> QED
  BY <1>1, <1>2, <1>4, <1>6, <1>7, TouchesOnly

LEMMA UnsettledTouches ==
  ASSUME NEW b, NEW r, Good(b, r), NEW t \in Slots, b.settled[t] # None, NEW c, c = Unsettled(b, t)
  PROVE  Touches(b, c, {b.settled[t].who}, r, r)
<1>1. /\ c.rows = [b.rows EXCEPT ![t] = IF b.rows[t].type = "writeoff" THEN None ELSE [b.rows[t] EXCEPT !.type = "income"]]
      /\ c.lends = b.lends
      /\ c.settled = [b.settled EXCEPT ![t] = None] /\ c.covers = [b.covers EXCEPT ![t] = None] /\ IsBook(c)
  BY DEF Good, IsBook, Unsettled
<1>2. SoundBook(c, r)
  <2>1. Sound(b.rows, b.lends, b.settled, r)
    BY DEF Good, SoundBook
  <2>2. Sound(c.rows, b.lends, c.settled, r)
    BY <1>1, <2>1, UnsettledSound
  <2> QED
    BY <1>1, <2>2 DEF SoundBook
<1>3. b.rows \in [Slots -> {None} \cup RowSet] /\ b.settled \in [Slots -> {None} \cup PaySet]
  BY DEF Good, SoundBook, Sound, Kinds
<1>4. /\ b.covers \in [Slots -> {None} \cup CoverSet]
      /\ \A u \in Slots : b.settled[u] = None => b.covers[u] = None
  BY CoversOf
<1>5. /\ \A u \in Slots : u # t => c.rows[u] = b.rows[u] /\ c.settled[u] = b.settled[u] /\ c.covers[u] = b.covers[u]
      /\ c.settled[t] = None /\ c.covers[t] = None
  BY <1>1, <1>3, <1>4
<1>6. c.covers \in [Slots -> {None} \cup CoverSet] /\ \A u \in Slots : c.settled[u] = None => c.covers[u] = None
  BY <1>1, <1>4, <1>5
<1>7. SoundBook(b, r)
  BY DEF Good
<1>8. \A l \in LendIds : c.lends[l] = b.lends[l]
  BY <1>1
<1>9. PICK P : P = {b.settled[t].who}
  OBVIOUS
<1>10. ASSUME NEW u \in Slots
       PROVE  \/ (b.settled[u] # None => b.settled[u].who \in P) /\ (c.settled[u] # None => c.settled[u].who \in P)
              \/ /\ b.settled[u] # None /\ c.settled[u] # None /\ c.settled[u].who = b.settled[u].who
                 /\ c.covers[u] = b.covers[u] /\ (u \notin r => c.rows[u] = b.rows[u])
                 /\ c.settled[u].pin = b.settled[u].pin
  <2>1. CASE u = t
    BY <1>5, <1>9, <2>1
  <2>2. CASE u # t
    BY <1>5, <2>2, Zenon
  <2> QED
    BY <2>1, <2>2
<1>11. Touches(b, c, P, r, r)
  <2>1. r \subseteq r /\ IsBook(c)
    BY <1>1
  <2> QED
    BY <2>1, <1>2, <1>6, <1>7, <1>8, <1>10, TouchesOnly, SMTT(30)
<1> QED
  BY <1>9, <1>11, Zenon

LEMMA PinnedTouches ==
  ASSUME NEW b, NEW r, Good(b, r), NEW t \in Slots, b.settled[t] # None,
         NEW pin \in LendIds \cup {Overall}, pin # Overall => b.lends[pin] # None,
         NEW c, c = [b EXCEPT !.settled[t].pin = pin]
  PROVE  Touches(b, c, {b.settled[t].who}, r, r)
<1>1. /\ c.rows = b.rows /\ c.lends = b.lends
      /\ c.settled = [b.settled EXCEPT ![t].pin = pin] /\ c.covers = b.covers /\ IsBook(c)
  BY DEF Good, IsBook
<1>2. SoundBook(c, r)
  <2>1. Sound(b.rows, b.lends, b.settled, r)
    BY DEF Good, SoundBook
  <2>2. Sound(b.rows, b.lends, c.settled, r)
    BY <1>1, <2>1, PinnedSound
  <2> QED
    BY <1>1, <2>2 DEF SoundBook
<1>3. b.settled \in [Slots -> {None} \cup PaySet]
  BY DEF Good, SoundBook, Sound, Kinds
<1>4. \A u \in Slots : u # t => c.settled[u] = b.settled[u]
  BY <1>1, <1>3
<1>5. c.settled[t] # None /\ c.settled[t].who = b.settled[t].who
  <2>1. b.settled[t] \in PaySet /\ c.settled[t] = [b.settled[t] EXCEPT !.pin = pin]
    BY <1>1, <1>3
  <2>2. c.settled[t] \in PaySet /\ c.settled[t].who = b.settled[t].who
    BY <2>1 DEF PaySet
  <2> QED
    BY <2>2, NoneIsNoRow
<1>6. c.covers \in [Slots -> {None} \cup CoverSet] /\ \A u \in Slots : c.settled[u] = None => c.covers[u] = None
  BY <1>1, <1>4, <1>5, CoversOf
<1>7. SoundBook(b, r)
  BY DEF Good
<1> QED
  BY <1>1, <1>2, <1>4, <1>5, <1>6, <1>7, TouchesOnly

(* An amount is forgiven, or what was forgiven is changed.                  *)
LEMMA WrittenOffTouches ==
  ASSUME NEW b, NEW r, Good(b, r), NEW t \in Adjustments, NEW row \in RowSet, row.type = "writeoff",
         NEW pay \in PaySet, pay.pin # Overall => b.lends[pay.pin] # None,
         b.settled[t] # None => b.settled[t].who = pay.who,
         NEW c, c = [b EXCEPT !.rows[t] = row, !.settled[t] = pay]
  PROVE  Touches(b, c, {pay.who}, r, r)
<1>1. /\ c.rows = [b.rows EXCEPT ![t] = row] /\ c.lends = b.lends
      /\ c.settled = [b.settled EXCEPT ![t] = pay] /\ c.covers = b.covers /\ IsBook(c)
  BY DEF Good, IsBook
<1>2. SoundBook(c, r)
  <2>1. Sound(b.rows, b.lends, b.settled, r)
    BY DEF Good, SoundBook
  <2>2. Sound(c.rows, b.lends, c.settled, r)
    BY <1>1, <2>1, WrittenOffSound
  <2> QED
    BY <1>1, <2>2 DEF SoundBook
<1>3. b.rows \in [Slots -> {None} \cup RowSet] /\ b.settled \in [Slots -> {None} \cup PaySet] /\ t \in Slots
  BY SlotFacts DEF Good, SoundBook, Sound, Kinds
<1>4. /\ \A u \in Slots : u # t => c.settled[u] = b.settled[u] /\ c.rows[u] = b.rows[u]
      /\ c.settled[t] = pay /\ pay # None
  BY <1>1, <1>3, NoneIsNoRow
<1>5. c.covers \in [Slots -> {None} \cup CoverSet] /\ \A u \in Slots : c.settled[u] = None => c.covers[u] = None
  BY <1>1, <1>4, CoversOf
<1>6. SoundBook(b, r)
  BY DEF Good
<1> QED
  BY <1>1, <1>2, <1>4, <1>5, <1>6, TouchesOnly

LEMMA CashTouches ==
  ASSUME NEW b, NEW r, Good(b, r), NEW lend \in LendSet, lend.txn = CashOut,
         NEW P, lend.who \in P, b.lends[CashLend] # None => b.lends[CashLend].who \in P,
         NEW c, c = [b EXCEPT !.rows[CashOut] = LendRow(lend), !.lends[CashLend] = lend]
  PROVE  Touches(b, c, P, r, r)
<1>1. /\ c.rows = [b.rows EXCEPT ![CashOut] = LendRow(lend)] /\ c.lends = [b.lends EXCEPT ![CashLend] = lend]
      /\ c.settled = b.settled /\ c.covers = b.covers /\ IsBook(c)
  BY DEF Good, IsBook
<1>2. lend # None
  BY NoneIsNoRow
<1>3. SoundBook(c, r)
  <2>1. Sound(b.rows, b.lends, b.settled, r)
    BY DEF Good, SoundBook
  <2>2. Sound(c.rows, c.lends, b.settled, r)
    BY <1>1, <1>2, <2>1, CashSound
  <2> QED
    BY <1>1, <2>2 DEF SoundBook
<1>4. /\ b.rows \in [Slots -> {None} \cup RowSet] /\ b.lends \in [LendIds -> {None} \cup LendSet]
      /\ CashOut \in Slots /\ CashLend \in LendIds /\ CashOut \notin {Bill, Credit} \cup Adjustments
  BY SlotFacts DEF Good, SoundBook, Sound, Kinds
<1>5. /\ \A l \in LendIds : l # CashLend => c.lends[l] = b.lends[l]
      /\ c.lends[CashLend] = lend /\ \A t \in Slots : t # CashOut => c.rows[t] = b.rows[t]
  BY <1>1, <1>4
<1>6. b.settled[CashOut] = None
  BY <1>4 DEF Good, SoundBook, Sound, PaidRows
<1>7. c.covers \in [Slots -> {None} \cup CoverSet] /\ \A t \in Slots : c.settled[t] = None => c.covers[t] = None
  BY <1>1, CoversOf
<1>8. SoundBook(b, r)
  BY DEF Good
<1> QED
  BY <1>1, <1>3, <1>5, <1>6, <1>7, <1>8, TouchesOnly

(* What a deleted lend takes with it: no payment of someone else covers it. *)
LEMMA WithoutIs ==
  ASSUME NEW b, NEW r, Good(b, r), NEW l \in LendIds, b.lends[l] # None, NEW c, c = Without(b, l),
         NEW p, p = b.lends[l].who
  PROVE  /\ IsBook(c) /\ c.rows = b.rows /\ c.lends = [b.lends EXCEPT ![l] = None]
         /\ c.settled = Unpinned(b.settled, l)
         /\ c.covers \in [Slots -> {None} \cup CoverSet] /\ \A t \in Slots : c.settled[t] = None => c.covers[t] = None
         /\ \A t \in Slots : c.settled[t] # None => c.settled[t].pin # l
         /\ \A t \in Slots : \/ (b.settled[t] # None => b.settled[t].who = p) /\ (c.settled[t] # None => c.settled[t].who = p)
                             \/ /\ b.settled[t] # None /\ c.settled[t] # None /\ c.settled[t].who = b.settled[t].who
                                /\ c.covers[t] = b.covers[t]
                                /\ \/ c.settled[t].pin = b.settled[t].pin
                                   \/ /\ c.settled[t].pin \notin Lent(b, b.settled[t].who)
                                      /\ b.settled[t].pin \notin Lent(b, b.settled[t].who)
<1>1. /\ IsBook(c) /\ c.rows = b.rows /\ c.lends = [b.lends EXCEPT ![l] = None]
      /\ c.settled = [t \in Slots |-> IF b.settled[t] # None /\ b.settled[t].pin = l
                                      THEN [b.settled[t] EXCEPT !.pin = Overall] ELSE b.settled[t]]
      /\ c.covers = [t \in Slots |-> IF b.covers[t] # None /\ b.covers[t].lend = l THEN None ELSE b.covers[t]]
  BY DEF Good, IsBook, Without
<1>2. c.settled = Unpinned(b.settled, l)
  BY <1>1 DEF Unpinned
<1>3. Sound(b.rows, b.lends, b.settled, r)
  BY DEF Good, SoundBook
<1>4. \A t \in Slots : /\ c.settled[t] # None => c.settled[t].pin # l
                       /\ c.settled[t] = None <=> b.settled[t] = None
                       /\ b.settled[t] # None => c.settled[t].who = b.settled[t].who
                       /\ b.settled[t] # None /\ b.settled[t].pin # l => c.settled[t] = b.settled[t]
                       /\ b.settled[t] # None /\ b.settled[t].pin = l => c.settled[t].pin = Overall
  <2>1. \A t \in Slots : /\ Unpinned(b.settled, l)[t] # None => Unpinned(b.settled, l)[t].pin # l
                         /\ Unpinned(b.settled, l)[t] = None <=> b.settled[t] = None
                         /\ b.settled[t] # None => Unpinned(b.settled, l)[t].who = b.settled[t].who
                         /\ b.settled[t] # None /\ b.settled[t].pin # l => Unpinned(b.settled, l)[t] = b.settled[t]
                         /\ b.settled[t] # None /\ b.settled[t].pin = l => Unpinned(b.settled, l)[t].pin = Overall
    BY <1>3, UnpinnedSound
  <2> QED
    BY <1>2, <2>1, Zenon
<1>5. /\ b.covers \in [Slots -> {None} \cup CoverSet]
      /\ \A t \in Slots : b.settled[t] = None => b.covers[t] = None
      /\ \A t \in Slots : b.covers[t] # None => /\ b.settled[t] # None /\ b.settled[t].pin = b.covers[t].lend
                                                /\ b.covers[t].lend \in Lent(b, b.settled[t].who)
  BY CoversOf
<1>6. \A t \in Slots : c.covers[t] = IF b.covers[t] # None /\ b.covers[t].lend = l THEN None ELSE b.covers[t]
  BY <1>1
<1>7. c.covers \in [Slots -> {None} \cup CoverSet]
  BY <1>1, <1>5, <1>6
<1>8. \A t \in Slots : c.settled[t] = None => c.covers[t] = None
  BY <1>4, <1>5, <1>6
<1>9. \A q : q # p => l \notin Lent(b, q)
  BY DEF Lent
<1>10. \A q : Overall \notin Lent(b, q)
  BY SlotFacts DEF Lent
<1>11. ASSUME NEW t \in Slots
       PROVE \/ (b.settled[t] # None => b.settled[t].who = p) /\ (c.settled[t] # None => c.settled[t].who = p)
             \/ /\ b.settled[t] # None /\ c.settled[t] # None /\ c.settled[t].who = b.settled[t].who
                /\ c.covers[t] = b.covers[t]
                /\ \/ c.settled[t].pin = b.settled[t].pin
                   \/ /\ c.settled[t].pin \notin Lent(b, b.settled[t].who)
                      /\ b.settled[t].pin \notin Lent(b, b.settled[t].who)
  <2>1. CASE b.settled[t] = None
    BY <1>4, <2>1
  <2>2. CASE b.settled[t] # None /\ b.settled[t].who = p
    BY <1>4, <2>2
  <2>3. CASE b.settled[t] # None /\ b.settled[t].who # p
    <3>1. c.settled[t] # None /\ c.settled[t].who = b.settled[t].who
      BY <1>4, <2>3
    <3>2. ~ (b.covers[t] # None /\ b.covers[t].lend = l)
      BY <1>5, <1>9, <2>3
    <3>3. c.covers[t] = b.covers[t]
      BY <1>6, <3>2
    <3>4. CASE b.settled[t].pin = l
      BY <1>4, <1>9, <1>10, <2>3, <3>1, <3>3, <3>4
    <3>5. CASE b.settled[t].pin # l
      BY <1>4, <2>3, <3>1, <3>3, <3>5
    <3> QED
      BY <3>4, <3>5
  <2> QED
    BY <2>1, <2>2, <2>3
<1> QED
  BY <1>1, <1>2, <1>4, <1>7, <1>8, <1>11

LEMMA CashGoneTouches ==
  ASSUME NEW b, NEW r, Good(b, r), b.lends[CashLend] # None,
         NEW c, c = [Without(b, CashLend) EXCEPT !.rows[CashOut] = None]
  PROVE  Touches(b, c, {b.lends[CashLend].who}, r, r)
<1>0. CashLend \in LendIds /\ CashOut \in Slots /\ CashOut \notin {Bill, Credit} \cup Adjustments
  BY SlotFacts
<1>1. PICK d, p : d = Without(b, CashLend) /\ p = b.lends[CashLend].who
  OBVIOUS
<1>2. /\ IsBook(d) /\ d.rows = b.rows /\ d.lends = [b.lends EXCEPT ![CashLend] = None]
      /\ d.settled = Unpinned(b.settled, CashLend)
      /\ d.covers \in [Slots -> {None} \cup CoverSet] /\ \A t \in Slots : d.settled[t] = None => d.covers[t] = None
      /\ \A t \in Slots : d.settled[t] # None => d.settled[t].pin # CashLend
      /\ \A t \in Slots : \/ (b.settled[t] # None => b.settled[t].who = p) /\ (d.settled[t] # None => d.settled[t].who = p)
                          \/ /\ b.settled[t] # None /\ d.settled[t] # None /\ d.settled[t].who = b.settled[t].who
                             /\ d.covers[t] = b.covers[t]
                             /\ \/ d.settled[t].pin = b.settled[t].pin
                                \/ /\ d.settled[t].pin \notin Lent(b, b.settled[t].who)
                                   /\ b.settled[t].pin \notin Lent(b, b.settled[t].who)
  BY <1>0, <1>1, WithoutIs
<1>3. /\ c.rows = [b.rows EXCEPT ![CashOut] = None] /\ c.lends = d.lends /\ c.settled = d.settled /\ c.covers = d.covers
      /\ IsBook(c)
  BY <1>1, <1>2 DEF IsBook
<1>4. SoundBook(b, r) /\ Sound(b.rows, b.lends, b.settled, r)
  BY DEF Good, SoundBook
<1>5. SoundBook(c, r)
  <2>1. Sound(b.rows, b.lends, d.settled, r)
    BY <1>0, <1>2, <1>4, UnpinnedSound
  <2>2. PICK lend, row : lend = None /\ row = None
    OBVIOUS
  <2>3. /\ lend \in {None} \cup LendSet /\ row = IF lend = None THEN None ELSE LendRow(lend)
        /\ lend # None => lend.txn = CashOut
        /\ lend = None => \A t \in Slots : d.settled[t] # None => d.settled[t].pin # CashLend
    BY <1>2, <2>2
  <2>4. Sound([b.rows EXCEPT ![CashOut] = row], [b.lends EXCEPT ![CashLend] = lend], d.settled, r)
    BY <2>1, <2>3, CashSound
  <2> QED
    BY <1>2, <1>3, <2>2, <2>4 DEF SoundBook
<1>6. /\ b.rows \in [Slots -> {None} \cup RowSet] /\ b.lends \in [LendIds -> {None} \cup LendSet]
  BY <1>4 DEF Sound, Kinds
<1>7. /\ \A l \in LendIds : l # CashLend => c.lends[l] = b.lends[l]
      /\ c.lends[CashLend] = None /\ \A t \in Slots : t # CashOut => c.rows[t] = b.rows[t]
  BY <1>0, <1>2, <1>3, <1>6
<1>8. b.settled[CashOut] = None
  BY <1>0, <1>4 DEF Sound, PaidRows
<1>9. \A l \in LendIds : \/ c.lends[l] = b.lends[l]
                         \/ (b.lends[l] # None => b.lends[l].who \in {p}) /\ (c.lends[l] # None => c.lends[l].who \in {p})
  BY <1>1, <1>7
<1>10. \A t \in Slots : \/ (b.settled[t] # None => b.settled[t].who \in {p}) /\ (c.settled[t] # None => c.settled[t].who \in {p})
                        \/ /\ b.settled[t] # None /\ c.settled[t] # None /\ c.settled[t].who = b.settled[t].who
                           /\ c.covers[t] = b.covers[t] /\ (t \notin r => c.rows[t] = b.rows[t])
                           /\ \/ c.settled[t].pin = b.settled[t].pin
                              \/ /\ c.settled[t].pin \notin Lent(b, b.settled[t].who)
                                 /\ b.settled[t].pin \notin Lent(b, b.settled[t].who)
  BY <1>2, <1>3, <1>7, <1>8
<1>12. PICK P : P = {p}
  OBVIOUS
<1>13. \A k \in LendIds : \/ c.lends[k] = b.lends[k]
                          \/ (b.lends[k] # None => b.lends[k].who \in P) /\ (c.lends[k] # None => c.lends[k].who \in P)
  BY <1>9, <1>12, Zenon
<1>14. \A t \in Slots : \/ (b.settled[t] # None => b.settled[t].who \in P) /\ (c.settled[t] # None => c.settled[t].who \in P)
                        \/ /\ b.settled[t] # None /\ c.settled[t] # None /\ c.settled[t].who = b.settled[t].who
                           /\ c.covers[t] = b.covers[t] /\ (t \notin r => c.rows[t] = b.rows[t])
                           /\ \/ c.settled[t].pin = b.settled[t].pin
                              \/ /\ c.settled[t].pin \notin Lent(b, b.settled[t].who)
                                 /\ b.settled[t].pin \notin Lent(b, b.settled[t].who)
  BY <1>10, <1>12, Zenon
<1>15. c.covers \in [Slots -> {None} \cup CoverSet] /\ \A t \in Slots : c.settled[t] = None => c.covers[t] = None
  BY <1>2, <1>3
<1>16. Touches(b, c, P, r, r)
  BY <1>3, <1>4, <1>5, <1>13, <1>14, <1>15, TouchesOnly
<1> QED
  BY <1>1, <1>12, <1>16

LEMMA UnmarkedTouches ==
  ASSUME NEW b, NEW r, Good(b, r), NEW l \in Shares, b.lends[l] # None, NEW c, c = Unmarked(b, l)
  PROVE  Touches(b, c, {b.lends[l].who}, r, r)
<1>0. l \in LendIds /\ Cut(l) \in Slots /\ Cut(l) \notin {Bill, Credit} \cup Adjustments /\ Bill \in Slots /\ Cut(l) # Bill
  BY SlotFacts
<1>1. PICK d, p : d = Without(b, l) /\ p = b.lends[l].who
  OBVIOUS
<1>2. /\ IsBook(d) /\ d.rows = b.rows /\ d.lends = [b.lends EXCEPT ![l] = None]
      /\ d.settled = Unpinned(b.settled, l)
      /\ d.covers \in [Slots -> {None} \cup CoverSet] /\ \A t \in Slots : d.settled[t] = None => d.covers[t] = None
      /\ \A t \in Slots : d.settled[t] # None => d.settled[t].pin # l
      /\ \A t \in Slots : \/ (b.settled[t] # None => b.settled[t].who = p) /\ (d.settled[t] # None => d.settled[t].who = p)
                          \/ /\ b.settled[t] # None /\ d.settled[t] # None /\ d.settled[t].who = b.settled[t].who
                             /\ d.covers[t] = b.covers[t]
                             /\ \/ d.settled[t].pin = b.settled[t].pin
                                \/ /\ d.settled[t].pin \notin Lent(b, b.settled[t].who)
                                   /\ b.settled[t].pin \notin Lent(b, b.settled[t].who)
  BY <1>0, <1>1, WithoutIs, SMTT(60)
<1>3. SoundBook(b, r) /\ Sound(b.rows, b.lends, b.settled, r)
  BY DEF Good, SoundBook
<1>4. /\ b.lends[l].txn \in {Bill, Cut(l)} /\ (b.lends[l].txn = Bill => b.rows[Cut(l)] = None)
      /\ b.rows \in [Slots -> {None} \cup RowSet] /\ b.lends \in [LendIds -> {None} \cup LendSet]
  BY <1>3, OneBill DEF Sound, Kinds
<1>5. PICK bill : bill = IF b.lends[l].txn = Bill THEN [b.rows[Bill] EXCEPT !.type = "expense"]
                         ELSE [b.rows[Bill] EXCEPT !.amount = b.rows[Bill].amount + b.rows[Cut(l)].amount]
  OBVIOUS
<1>6. /\ c.rows = [b.rows EXCEPT ![Bill] = bill, ![Cut(l)] = None] /\ c.lends = d.lends /\ c.settled = d.settled
      /\ c.covers = d.covers /\ IsBook(c)
  <2>1. CASE b.lends[l].txn = Bill
    <3>1. c = [d EXCEPT !.rows[Bill].type = "expense"]
      BY <1>1, <2>1 DEF Unmarked
    <3>2. /\ c.rows = [b.rows EXCEPT ![Bill] = bill] /\ c.lends = d.lends /\ c.settled = d.settled /\ c.covers = d.covers /\ IsBook(c)
      BY <1>2, <1>5, <2>1, <3>1 DEF IsBook
    <3>3. [b.rows EXCEPT ![Bill] = bill] = [b.rows EXCEPT ![Bill] = bill, ![Cut(l)] = None]
      BY <1>0, <1>4, <2>1
    <3> QED
      BY <3>2, <3>3
  <2>2. CASE b.lends[l].txn # Bill
    <3>1. PICK e : e = [d EXCEPT !.rows[Cut(l)] = None]
      OBVIOUS
    <3>2. c = [e EXCEPT !.rows[Bill].amount = @ + b.rows[Cut(l)].amount]
      BY <1>1, <1>4, <2>2, <3>1 DEF Unmarked
    <3>3. /\ e.rows = [b.rows EXCEPT ![Cut(l)] = None] /\ e.lends = d.lends /\ e.settled = d.settled
          /\ e.covers = d.covers /\ IsBook(e)
      BY <1>2, <3>1 DEF IsBook
    <3>4. e.rows[Bill] = b.rows[Bill]
      BY <1>0, <1>4, <3>3
    <3>5. c = [e EXCEPT !.rows[Bill] = bill]
      BY <1>5, <2>2, <3>2, <3>4
    <3>6. /\ c.rows = [e.rows EXCEPT ![Bill] = bill] /\ c.lends = d.lends /\ c.settled = d.settled
          /\ c.covers = d.covers /\ IsBook(c)
      BY <3>3, <3>5 DEF IsBook
    <3>7. [e.rows EXCEPT ![Bill] = bill] = [b.rows EXCEPT ![Bill] = bill, ![Cut(l)] = None]
      BY <1>0, <1>4, <3>3
    <3> QED
      BY <3>6, <3>7
  <2> QED
    BY <2>1, <2>2
<1>7. SoundBook(c, r)
  <2>1. Sound(b.rows, b.lends, d.settled, r)
    BY <1>0, <1>2, <1>3, UnpinnedSound
  <2>2. Sound([b.rows EXCEPT ![Bill] = bill, ![Cut(l)] = None], [b.lends EXCEPT ![l] = None], d.settled, r)
    BY <1>2, <1>5, <2>1, UnmarkedSound
  <2> QED
    BY <1>2, <1>6, <2>2 DEF SoundBook
<1>8. /\ \A k \in LendIds : k # l => c.lends[k] = b.lends[k]
      /\ c.lends[l] = None /\ \A t \in Slots : t # Bill /\ t # Cut(l) => c.rows[t] = b.rows[t]
  BY <1>0, <1>2, <1>4, <1>6
<1>9. b.settled[Cut(l)] = None /\ (Bill \notin r => b.settled[Bill] = None)
  BY <1>0, <1>3, OneBill DEF Sound, PaidRows
<1>10. \A k \in LendIds : \/ c.lends[k] = b.lends[k]
                          \/ (b.lends[k] # None => b.lends[k].who \in {p}) /\ (c.lends[k] # None => c.lends[k].who \in {p})
  BY <1>1, <1>8
<1>11. \A t \in Slots : \/ (b.settled[t] # None => b.settled[t].who \in {p}) /\ (c.settled[t] # None => c.settled[t].who \in {p})
                        \/ /\ b.settled[t] # None /\ c.settled[t] # None /\ c.settled[t].who = b.settled[t].who
                           /\ c.covers[t] = b.covers[t] /\ (t \notin r => c.rows[t] = b.rows[t])
                           /\ \/ c.settled[t].pin = b.settled[t].pin
                              \/ /\ c.settled[t].pin \notin Lent(b, b.settled[t].who)
                                 /\ b.settled[t].pin \notin Lent(b, b.settled[t].who)
  BY <1>2, <1>6, <1>8, <1>9
<1>12. PICK P : P = {p}
  OBVIOUS
<1>13. \A k \in LendIds : \/ c.lends[k] = b.lends[k]
                          \/ (b.lends[k] # None => b.lends[k].who \in P) /\ (c.lends[k] # None => c.lends[k].who \in P)
  BY <1>10, <1>12, Zenon
<1>14. \A t \in Slots : \/ (b.settled[t] # None => b.settled[t].who \in P) /\ (c.settled[t] # None => c.settled[t].who \in P)
                        \/ /\ b.settled[t] # None /\ c.settled[t] # None /\ c.settled[t].who = b.settled[t].who
                           /\ c.covers[t] = b.covers[t] /\ (t \notin r => c.rows[t] = b.rows[t])
                           /\ \/ c.settled[t].pin = b.settled[t].pin
                              \/ /\ c.settled[t].pin \notin Lent(b, b.settled[t].who)
                                 /\ b.settled[t].pin \notin Lent(b, b.settled[t].who)
  BY <1>11, <1>12, Zenon
<1>15. c.covers \in [Slots -> {None} \cup CoverSet] /\ \A t \in Slots : c.settled[t] = None => c.covers[t] = None
  BY <1>2, <1>6
<1>16. Touches(b, c, P, r, r)
  BY <1>3, <1>6, <1>7, <1>13, <1>14, <1>15, TouchesOnly
<1> QED
  BY <1>1, <1>12, <1>16

Tabled(b, r) ==
  /\ IsBook(b) /\ SoundBook(b, r) /\ b.covers \in [Slots -> {None} \cup CoverSet]
  /\ \A t \in Slots : b.settled[t] = None => b.covers[t] = None

LEMMA TouchedTabled ==
  /\ \A b, r : Good(b, r) => Tabled(b, r)
  /\ \A b, c, P, r, s : Touches(b, c, P, r, s) => Tabled(c, s)
<1>1. ASSUME NEW b, NEW r, Good(b, r)
      PROVE  Tabled(b, r)
  BY <1>1, CoversOf DEF Good, Tabled
<1>2. ASSUME NEW b, NEW c, NEW P, NEW r, NEW s, Touches(b, c, P, r, s)
      PROVE  Tabled(c, s)
  BY <1>2 DEF Touches, Tabled
<1> QED
  BY <1>1, <1>2

(* A share's own rows change, and its lend stays the same person's.         *)
ShareChanges(b, c, l, p, r, s, bill, row, lend) ==
  /\ Tabled(b, r) /\ l \in Shares /\ (b.lends[l] # None => b.lends[l].who = p)
  /\ r \subseteq s /\ (Bill \notin s => b.settled[Bill] = None)
  /\ lend # None /\ lend.who = p
  /\ IsBook(c) /\ c.rows = [b.rows EXCEPT ![Bill] = bill, ![Cut(l)] = row]
  /\ c.lends = [b.lends EXCEPT ![l] = lend] /\ c.settled = b.settled /\ c.covers = b.covers /\ SoundBook(c, s)

LEMMA ShareTouches ==
  ASSUME NEW b, NEW c, NEW l, NEW p, NEW r, NEW s, NEW bill, NEW row, NEW lend,
         ShareChanges(b, c, l, p, r, s, bill, row, lend)
  PROVE  Touches(b, c, {p}, r, s) /\ c.lends[l] = lend /\ c.rows[Bill] = bill
<1> USE DEF ShareChanges
<1>0. /\ l \in LendIds /\ Cut(l) \in Slots /\ Cut(l) \notin {Bill, Credit} \cup Adjustments /\ Bill \in Slots /\ Cut(l) # Bill
  BY SlotFacts
<1>1. SoundBook(b, r) /\ b.covers \in [Slots -> {None} \cup CoverSet] /\ \A t \in Slots : b.settled[t] = None => b.covers[t] = None
  BY DEF Tabled
<1>2. b.rows \in [Slots -> {None} \cup RowSet] /\ b.lends \in [LendIds -> {None} \cup LendSet]
  BY <1>1 DEF SoundBook, Sound, Kinds
<1>3. /\ \A k \in LendIds : k # l => c.lends[k] = b.lends[k]
      /\ c.lends[l] = lend /\ \A t \in Slots : t # Bill /\ t # Cut(l) => c.rows[t] = b.rows[t]
      /\ c.rows[Bill] = bill
  BY <1>0, <1>2
<1>4. b.settled[Cut(l)] = None
  BY <1>0, <1>1 DEF SoundBook, Sound, PaidRows
<1>5. PICK P : P = {p}
  OBVIOUS
<1>6. \A k \in LendIds : \/ c.lends[k] = b.lends[k]
                         \/ (b.lends[k] # None => b.lends[k].who \in P) /\ (c.lends[k] # None => c.lends[k].who \in P)
  BY <1>3, <1>5
<1>7. \A t \in Slots : \/ (b.settled[t] # None => b.settled[t].who \in P) /\ (c.settled[t] # None => c.settled[t].who \in P)
                       \/ /\ b.settled[t] # None /\ c.settled[t] # None /\ c.settled[t].who = b.settled[t].who
                          /\ c.covers[t] = b.covers[t] /\ (t \notin s => c.rows[t] = b.rows[t])
                          /\ \/ c.settled[t].pin = b.settled[t].pin
                             \/ /\ c.settled[t].pin \notin Lent(b, b.settled[t].who)
                                /\ b.settled[t].pin \notin Lent(b, b.settled[t].who)
  BY <1>3, <1>4
<1>8. c.covers \in [Slots -> {None} \cup CoverSet] /\ \A t \in Slots : c.settled[t] = None => c.covers[t] = None
  BY <1>1
<1>9. Touches(b, c, P, r, s)
  BY <1>1, <1>6, <1>7, <1>8, TouchesOnly
<1> QED
  BY <1>3, <1>5, <1>9

LEMMA TotalIsNat ==
  ASSUME NEW b, NEW r, Tabled(b, r), NEW l \in Shares, b.lends[l] # None
  PROVE  /\ Total(b, l) \in Nat
         /\ b.lends[l].txn = Bill => Total(b, l) = b.rows[Bill].amount
         /\ b.lends[l].txn # Bill => Total(b, l) = b.rows[Cut(l)].amount + b.rows[Bill].amount
<1>1. /\ b.rows[Bill] \in RowSet /\ b.lends[l].txn \in {Bill, Cut(l)} /\ (b.lends[l].txn = Cut(l) => b.rows[Cut(l)] \in RowSet)
  BY OneBill DEF Tabled, SoundBook
<1>2. PICK m \in Nat : m = b.rows[Bill].amount
  BY <1>1 DEF RowSet
<1>3. CASE b.lends[l].txn = Bill
  BY <1>2, <1>3 DEF Total, BillPart
<1>4. CASE b.lends[l].txn # Bill
  <2>1. PICK n \in Nat : n = b.rows[Cut(l)].amount
    BY <1>1, <1>4 DEF RowSet
  <2>2. Total(b, l) = n + m
    BY <1>1, <1>2, <1>4, <2>1 DEF Total, BillPart
  <2> QED
    BY <1>2, <1>4, <2>1, <2>2
<1> QED
  BY <1>3, <1>4

LEMMA MovedTouches ==
  ASSUME NEW b, NEW r, Tabled(b, r), NEW l \in Shares, b.lends[l] # None, NEW share \in 1..Total(b, l),
         NEW c, c = Moved(b, l, share)
  PROVE  /\ Touches(b, c, {b.lends[l].who}, r, r)
         /\ c.lends[l] # None /\ c.lends[l].who = b.lends[l].who
<1>0. /\ l \in LendIds /\ Cut(l) \in Slots /\ Bill \in Slots /\ Cut(l) # Bill
  BY SlotFacts
<1>1. SoundBook(b, r) /\ Sound(b.rows, b.lends, b.settled, r)
  BY DEF Tabled, SoundBook
<1>2. PICK total \in Nat : total = Total(b, l)
  BY TotalIsNat
<1>3. PICK rest : rest = Total(b, l) - share
  OBVIOUS
<1>4. share \in Nat /\ rest \in Nat
  BY <1>2, <1>3
<1>5. b.rows \in [Slots -> {None} \cup RowSet] /\ b.lends[l] \in LendSet
  BY <1>0, <1>1 DEF Sound, Kinds
<1>6. PICK bill, row, lend :
        /\ bill = [b.rows[Bill] EXCEPT !.type = IF b.lends[l].txn = Bill THEN "expense" ELSE b.rows[Bill].type,
                                       !.amount = rest]
        /\ row = IF b.lends[l].txn = Bill THEN [type |-> "lend", amount |-> share, day |-> b.rows[Bill].day]
                 ELSE [b.rows[Cut(l)] EXCEPT !.amount = share]
        /\ lend = [b.lends[l] EXCEPT !.txn = Cut(l), !.principal = share]
  OBVIOUS
<1>7. c = [b EXCEPT !.rows[Bill] = bill, !.rows[Cut(l)] = IF b.lends[l].txn = Bill
                             THEN [type |-> "lend", amount |-> share, day |-> b.rows[Bill].day]
                             ELSE [@ EXCEPT !.amount = share], !.lends[l] = lend]
  BY <1>3, <1>6 DEF Moved
<1>8. IsBook(c) /\ c.lends = [b.lends EXCEPT ![l] = lend] /\ c.settled = b.settled /\ c.covers = b.covers
  BY <1>7 DEF Tabled, IsBook
<1>9. c.rows = [b.rows EXCEPT ![Bill] = bill, ![Cut(l)] = row]
  <2>1. PICK e : e = [b EXCEPT !.rows[Bill] = bill]
    OBVIOUS
  <2>2. e.rows = [b.rows EXCEPT ![Bill] = bill] /\ IsBook(e) /\ e.lends = b.lends
    BY <2>1 DEF Tabled, IsBook
  <2>3. e.rows[Cut(l)] = b.rows[Cut(l)]
    BY <1>0, <1>5, <2>2
  <2>4. c = [e EXCEPT !.rows[Cut(l)] = row, !.lends[l] = lend]
    BY <1>6, <1>7, <2>1, <2>3
  <2>5. c.rows = [e.rows EXCEPT ![Cut(l)] = row]
    BY <2>2, <2>4 DEF IsBook
  <2> QED
    BY <2>2, <2>5
<1>10. SoundBook(c, r)
  <2>1. Sound([b.rows EXCEPT ![Bill] = bill, ![Cut(l)] = row], [b.lends EXCEPT ![l] = lend], b.settled, r)
    BY <1>1, <1>4, <1>6, MovedSound
  <2> QED
    BY <1>8, <1>9, <2>1 DEF SoundBook
<1>11. lend # None /\ lend.who = b.lends[l].who
  <2>1. lend \in LendSet /\ lend.who = b.lends[l].who
    BY <1>0, <1>4, <1>5, <1>6 DEF LendSet
  <2> QED
    BY <2>1, NoneIsNoRow
<1>12. Bill \notin r => b.settled[Bill] = None
  BY <1>1, OneBill
<1>13. PICK p : p = b.lends[l].who
  OBVIOUS
<1>14. ShareChanges(b, c, l, p, r, r, bill, row, lend)
  BY <1>8, <1>9, <1>10, <1>11, <1>12, <1>13 DEF ShareChanges
<1>15. Touches(b, c, {p}, r, r) /\ c.lends[l] = lend
  BY <1>14, ShareTouches
<1> QED
  BY <1>11, <1>13, <1>15

LEMMA SameTouches ==
  ASSUME NEW b, NEW r, Tabled(b, r), NEW P
  PROVE  Touches(b, b, P, r, r)
<1>1. SoundBook(b, r) /\ IsBook(b) /\ b.covers \in [Slots -> {None} \cup CoverSet]
      /\ \A t \in Slots : b.settled[t] = None => b.covers[t] = None
  BY DEF Tabled
<1>2. \A t \in Slots : \/ (b.settled[t] # None => b.settled[t].who \in P) /\ (b.settled[t] # None => b.settled[t].who \in P)
                       \/ /\ b.settled[t] # None /\ b.settled[t] # None /\ b.settled[t].who = b.settled[t].who
                          /\ b.covers[t] = b.covers[t] /\ (t \notin r => b.rows[t] = b.rows[t])
                          /\ \/ b.settled[t].pin = b.settled[t].pin
                             \/ /\ b.settled[t].pin \notin Lent(b, b.settled[t].who)
                                /\ b.settled[t].pin \notin Lent(b, b.settled[t].who)
  OBVIOUS
<1> QED
  BY <1>1, <1>2, TouchesOnly

LEMMA WholeTouches ==
  ASSUME NEW b, NEW r, Tabled(b, r), NEW l \in Shares, b.lends[l] # None, b.lends[l].txn # Bill, ~Others(b, l),
         \A k \in Shares : b.lends[k] # None => b.lends[k].txn # Bill, NEW c, c = Whole(b, l)
  PROVE  /\ Touches(b, c, {b.lends[l].who}, r, r)
         /\ c.lends[l] # None /\ c.lends[l].who = b.lends[l].who
<1>0. /\ l \in LendIds /\ Cut(l) \in Slots /\ Bill \in Slots /\ Cut(l) # Bill
  BY SlotFacts
<1>1. SoundBook(b, r) /\ Sound(b.rows, b.lends, b.settled, r)
  BY DEF Tabled, SoundBook
<1>2. PICK total \in Nat : total = Total(b, l)
  BY TotalIsNat
<1>3. b.rows \in [Slots -> {None} \cup RowSet] /\ b.lends[l] \in LendSet
  BY <1>0, <1>1 DEF Sound, Kinds
<1>4. PICK bill, lend :
        /\ bill = [b.rows[Bill] EXCEPT !.type = "lend", !.amount = total]
        /\ lend = [b.lends[l] EXCEPT !.txn = Bill, !.principal = total]
  OBVIOUS
<1>5. c = [b EXCEPT !.rows[Bill] = bill, !.rows[Cut(l)] = None, !.lends[l] = lend]
  BY <1>2, <1>4 DEF Whole
<1>6. IsBook(c) /\ c.lends = [b.lends EXCEPT ![l] = lend] /\ c.settled = b.settled /\ c.covers = b.covers
  BY <1>5 DEF Tabled, IsBook
<1>7. c.rows = [b.rows EXCEPT ![Bill] = bill, ![Cut(l)] = None]
  BY <1>5 DEF Tabled, IsBook
<1>8. ASSUME NEW k \in Shares, k # l, b.lends[k] # None
      PROVE  FALSE
  <2>1. b.lends[k].txn = Cut(k) /\ b.lends[l].txn = Cut(l) /\ b.rows[Cut(k)] # None
    BY <1>1, <1>8, OneBill, NoneIsNoRow
  <2>2. Cut(k) \in Slots /\ Cut(k) > 5 /\ Cut(k) # Cut(l)
    BY <1>8, SlotFacts
  <2>3. Cut(k) \in Cuts(b) \ {b.lends[l].txn}
    BY <2>1, <2>2 DEF Cuts
  <2> QED
    BY <2>3 DEF Others
<1>9. SoundBook(c, r)
  <2>1. Sound([b.rows EXCEPT ![Bill] = bill, ![Cut(l)] = None], [b.lends EXCEPT ![l] = lend], b.settled, r)
    BY <1>1, <1>4, <1>8, WholeSound
  <2> QED
    BY <1>6, <1>7, <2>1 DEF SoundBook
<1>10. lend # None /\ lend.who = b.lends[l].who
  <2>1. lend \in LendSet /\ lend.who = b.lends[l].who
    BY <1>0, <1>3, <1>4 DEF LendSet
  <2> QED
    BY <2>1, NoneIsNoRow
<1>11. Bill \notin r => b.settled[Bill] = None
  BY <1>1, OneBill
<1>12. PICK row : row = None
  OBVIOUS
<1>13. c.rows = [b.rows EXCEPT ![Bill] = bill, ![Cut(l)] = row]
  BY <1>7, <1>12
<1>14. PICK p : p = b.lends[l].who
  OBVIOUS
<1>15. lend.who = p /\ (b.lends[l] # None => b.lends[l].who = p) /\ r \subseteq r
  BY <1>10, <1>14
<1>16. ShareChanges(b, c, l, p, r, r, bill, row, lend)
  BY <1>6, <1>9, <1>10, <1>11, <1>13, <1>15 DEF ShareChanges
<1>17. Touches(b, c, {p}, r, r) /\ c.lends[l] = lend
  BY <1>16, ShareTouches
<1> QED
  BY <1>10, <1>14, <1>17

(* The bill, or the split of it, becomes a lend of the share's borrower.    *)
Marks(b, c, l, p, r, s) ==
  /\ Tabled(b, r) /\ r \subseteq s /\ p \in People /\ b.rows[Bill] # None /\ b.rows[Bill].type = "expense"
  /\ Bill \in s \/ Cuts(b) = {}
  /\ \E k \in Shares : b.lends[k] = None
  /\ c = Marked(b, p) /\ l = FreeShare(b)

Holds(c, l, p) == c.lends[l] # None /\ c.lends[l].who = p /\ c.lends[l].txn = Bill

LEMMA MarkedTouches ==
  ASSUME NEW b, NEW c, NEW l, NEW p, NEW r, NEW s, Marks(b, c, l, p, r, s)
  PROVE  /\ Touches(b, c, {p}, r, s)
         /\ Holds(c, l, p) /\ l \in Shares
         /\ c.rows[Bill].amount = b.rows[Bill].amount /\ b.lends[l] = None
         /\ \A t \in Slots : /\ c.rows[t] = None <=> b.rows[t] = None
                             /\ b.rows[t] # None => c.rows[t].amount = b.rows[t].amount
<1> USE DEF Marks, Holds
<1>1. l \in Shares /\ b.lends[l] = None
  <2>1. PICK F : F = {k \in Shares : b.lends[k] = None}
    OBVIOUS
  <2>2. F \in SUBSET Nat /\ F # {}
    BY <2>1, SlotFacts
  <2>3. Min(F) \in F
    BY <2>2, MinIs
  <2> QED
    BY <2>1, <2>3 DEF FreeShare
<1>2. /\ l \in LendIds /\ Cut(l) \in Slots /\ Bill \in Slots /\ Cut(l) # Bill
  BY <1>1, SlotFacts
<1>3. SoundBook(b, r) /\ Sound(b.rows, b.lends, b.settled, r)
  BY DEF Tabled, SoundBook
<1>4. Sound(b.rows, b.lends, b.settled, s)
  BY <1>3, SoundMore
<1>5. b.rows \in [Slots -> {None} \cup RowSet] /\ b.rows[Bill] \in RowSet
  BY <1>2, <1>3 DEF Sound, Kinds
<1>6. PICK bill, lend :
        /\ bill = [b.rows[Bill] EXCEPT !.type = "lend"]
        /\ lend = [who |-> p, principal |-> b.rows[Bill].amount, txn |-> Bill, day |-> b.rows[Bill].day]
  OBVIOUS
<1>7. c = [b EXCEPT !.rows[Bill] = bill, !.lends[l] = lend]
  BY <1>6 DEF Marked
<1>8. /\ IsBook(c) /\ c.lends = [b.lends EXCEPT ![l] = lend] /\ c.settled = b.settled /\ c.covers = b.covers
      /\ c.rows = [b.rows EXCEPT ![Bill] = bill]
  BY <1>7 DEF Tabled, IsBook
<1>9. Bill \in s \/ \A k \in Shares : b.rows[Cut(k)] = None
  BY SlotFacts DEF Cuts
<1>10. SoundBook(c, s)
  <2>1. Sound([b.rows EXCEPT ![Bill] = bill], [b.lends EXCEPT ![l] = lend], b.settled, s)
    BY <1>1, <1>4, <1>6, <1>9, MarkedSound
  <2> QED
    BY <1>8, <2>1 DEF SoundBook
<1>11. lend # None /\ lend.who = p /\ lend.txn = Bill
  <2>1. lend \in LendSet
    BY <1>2, <1>5, <1>6 DEF LendSet, RowSet
  <2> QED
    BY <1>6, <2>1, NoneIsNoRow
<1>12. Bill \notin s => b.settled[Bill] = None
  BY <1>2, <1>4 DEF Sound, PaidRows
<1>13. PICK row : row = b.rows[Cut(l)]
  OBVIOUS
<1>14. c.rows = [b.rows EXCEPT ![Bill] = bill, ![Cut(l)] = row]
  BY <1>2, <1>5, <1>8, <1>13
<1>15. Touches(b, c, {p}, r, s) /\ c.lends[l] = lend /\ c.rows[Bill] = bill
  <2>1. ShareChanges(b, c, l, p, r, s, bill, row, lend)
    BY <1>1, <1>8, <1>10, <1>11, <1>12, <1>14 DEF ShareChanges
  <2> QED
    BY <2>1, ShareTouches
<1>16. bill.amount = b.rows[Bill].amount /\ bill # None
  <2>1. bill \in RowSet /\ bill.amount = b.rows[Bill].amount
    BY <1>5, <1>6 DEF RowSet, RowTypes
  <2> QED
    BY <2>1, NoneIsNoRow
<1>17. \A t \in Slots : t # Bill => c.rows[t] = b.rows[t]
  BY <1>5, <1>8
<1>18. \A t \in Slots : /\ c.rows[t] = None <=> b.rows[t] = None
                        /\ b.rows[t] # None => c.rows[t].amount = b.rows[t].amount
  BY <1>15, <1>16, <1>17
<1> QED
  BY <1>1, <1>11, <1>15, <1>16, <1>18

LEMMA SharedTouches ==
  ASSUME NEW b, NEW r, Tabled(b, r), NEW l \in Shares, b.lends[l] # None, NEW share, CanShare(b, l, share),
         NEW c, c = Shared(b, l, share)
  PROVE  /\ Touches(b, c, {b.lends[l].who}, r, r)
         /\ c.lends[l] # None /\ c.lends[l].who = b.lends[l].who
<1>1. PICK total \in Nat : total = Total(b, l)
  BY TotalIsNat
<1>2. share \in 1..total /\ share \in 1..Total(b, l)
  BY <1>1 DEF CanShare
<1>3. CASE share < Total(b, l) \/ (b.lends[l].txn # Bill /\ Others(b, l))
  <2>1. c = Moved(b, l, share)
    BY <1>3 DEF Shared
  <2> QED
    BY <1>2, <2>1, MovedTouches
<1>4. CASE ~ (share < Total(b, l) \/ (b.lends[l].txn # Bill /\ Others(b, l)))
  <2>1. CASE b.lends[l].txn # Bill
    <3>1. c = Whole(b, l)
      BY <1>4, <2>1 DEF Shared
    <3>2. share = total
      BY <1>1, <1>2, <1>4
    <3>3. ~Others(b, l) /\ \A k \in Shares : b.lends[k] # None => b.lends[k].txn # Bill
      BY <1>1, <1>4, <2>1, <3>2 DEF CanShare
    <3> QED
      BY <2>1, <3>1, <3>3, WholeTouches
  <2>2. CASE b.lends[l].txn = Bill
    <3>1. c = b
      BY <1>4, <2>2 DEF Shared
    <3> QED
      BY <3>1, SameTouches
  <2> QED
    BY <2>1, <2>2
<1> QED
  BY <1>3, <1>4

LEMMA ReassignedTouches ==
  ASSUME NEW b, NEW r, Tabled(b, r), NEW l \in LendIds, b.lends[l] # None,
         NEW p \in People, NEW amount \in Nat, NEW day \in Nat,
         NEW c, c = Reassigned(b, l, p, amount, day), NEW P, P = {b.lends[l].who, p}
  PROVE  Touches(b, c, P, r, r)
<1>0. /\ Bill \in Slots /\ CashOut \in Slots /\ CashOut # Bill /\ CashOut \notin {Bill, Credit} \cup Adjustments
      /\ CashLend \in LendIds /\ LendIds = Shares \cup {CashLend} /\ CashLend \notin Shares /\ Overall \notin LendIds
      /\ \A k \in Shares : Cut(k) # CashOut /\ Cut(k) # Bill
  BY SlotFacts
<1>1. SoundBook(b, r) /\ Sound(b.rows, b.lends, b.settled, r)
  BY DEF Tabled, SoundBook
<1>2. /\ b.rows \in [Slots -> {None} \cup RowSet] /\ b.lends \in [LendIds -> {None} \cup LendSet] /\ b.lends[l] \in LendSet
      /\ CashRow(b.rows, b.lends) /\ PaidRows(b.rows, b.lends, b.settled, r)
  BY <1>1 DEF Sound, Kinds
<1>3. PICK paid : paid = IF b.lends[l].who = p THEN b.settled ELSE Unpinned(b.settled, l)
  OBVIOUS
<1>4. \A t \in Slots : /\ Unpinned(b.settled, l)[t] = None <=> b.settled[t] = None
                       /\ b.settled[t] # None => Unpinned(b.settled, l)[t].who = b.settled[t].who
                       /\ b.settled[t] # None /\ b.settled[t].pin # l => Unpinned(b.settled, l)[t] = b.settled[t]
                       /\ b.settled[t] # None /\ b.settled[t].pin = l => Unpinned(b.settled, l)[t].pin = Overall
  BY <1>1, UnpinnedSound
<1>5. /\ Sound(b.rows, b.lends, paid, r)
      /\ \A t \in Slots : paid[t] = None <=> b.settled[t] = None
      /\ \A t \in Slots : b.settled[t] # None =>
           /\ paid[t].who = b.settled[t].who
           /\ paid[t].pin = b.settled[t].pin \/ (paid[t].pin = Overall /\ b.settled[t].pin = l)
  <2>1. CASE b.lends[l].who = p
    BY <1>1, <1>3, <2>1
  <2>2. CASE b.lends[l].who # p
    <3>1. paid = Unpinned(b.settled, l)
      BY <1>3, <2>2
    <3>2. Sound(b.rows, b.lends, paid, r)
      BY <1>1, <3>1, UnpinnedSound
    <3> QED
      BY <1>4, <3>1, <3>2
  <2> QED
    BY <2>1, <2>2
<1>6. ASSUME NEW t \in Slots, b.settled[t] # None
      PROVE  \/ b.settled[t].who \in P /\ paid[t].who \in P
             \/ paid[t].pin = b.settled[t].pin
             \/ /\ paid[t].pin \notin Lent(b, b.settled[t].who) /\ b.settled[t].pin \notin Lent(b, b.settled[t].who)
  <2>1. CASE b.settled[t].who \in P
    BY <1>5, <1>6, <2>1
  <2>2. CASE b.settled[t].who \notin P
    <3>1. l \notin Lent(b, b.settled[t].who) /\ Overall \notin Lent(b, b.settled[t].who)
      BY <1>0, <2>2 DEF Lent
    <3> QED
      BY <1>5, <1>6, <3>1
  <2> QED
    BY <2>1, <2>2
<1>7. PICK unpinned : unpinned = IF b.lends[l].who = p THEN b.settled
                ELSE [t \in Slots |-> IF b.settled[t] # None /\ b.settled[t].pin = l
                                        THEN [b.settled[t] EXCEPT !.pin = Overall] ELSE b.settled[t]]
  OBVIOUS
<1>8. unpinned = paid
  BY <1>3, <1>7 DEF Unpinned
<1>9. c = IF b.lends[l].txn \in {Bill, CashOut}
          THEN [b EXCEPT !.settled = unpinned,
                    !.lends[l] = [@ EXCEPT !.who = p, !.principal = amount, !.day = day],
                    !.rows[b.lends[l].txn] = [@ EXCEPT !.amount = amount, !.day = day]]
          ELSE [b EXCEPT !.settled = unpinned, !.lends[l].who = p]
  BY <1>7 DEF Reassigned
<1>10. /\ IsBook(c) /\ c.settled = paid /\ c.covers = b.covers /\ SoundBook(c, r)
       /\ \A k \in LendIds : k # l => c.lends[k] = b.lends[k]
       /\ c.lends[l].who = p
       /\ \A t \in Slots : b.settled[t] # None /\ t \notin r => c.rows[t] = b.rows[t]
  <2>1. CASE b.lends[l].txn \in {Bill, CashOut}
    <3>1. PICK row, lend : /\ row = [b.rows[b.lends[l].txn] EXCEPT !.amount = amount, !.day = day]
                           /\ lend = [b.lends[l] EXCEPT !.who = p, !.principal = amount, !.day = day]
      OBVIOUS
    <3>2. PICK t : t = b.lends[l].txn
      OBVIOUS
    <3>3. c = [b EXCEPT !.settled = paid, !.lends[l] = lend, !.rows[t] = row]
      BY <1>8, <1>9, <2>1, <3>1, <3>2
    <3>4. /\ IsBook(c) /\ c.settled = paid /\ c.covers = b.covers
          /\ c.lends = [b.lends EXCEPT ![l] = lend] /\ c.rows = [b.rows EXCEPT ![t] = row]
      BY <3>3 DEF Tabled, IsBook
    <3>5. lend \in LendSet /\ lend.who = p /\ lend.txn = b.lends[l].txn /\ lend.principal = amount /\ lend.day = day
      BY <1>2, <3>1 DEF LendSet
    <3>6. CASE l = CashLend
      <4>1. t = CashOut /\ b.rows[CashOut] = LendRow(b.lends[CashLend])
        BY <1>2, <3>2, <3>6 DEF CashRow
      <4>2. row = LendRow(lend)
        <5>1. row = [LendRow(b.lends[CashLend]) EXCEPT !.amount = amount, !.day = day]
          BY <3>1, <3>2, <4>1
        <5>2. row = [type |-> "lend", amount |-> amount, day |-> day]
          BY <5>1 DEF LendRow
        <5> QED
          BY <3>5, <5>2 DEF LendRow
      <4>3. Sound([b.rows EXCEPT ![CashOut] = row], [b.lends EXCEPT ![CashLend] = lend], paid, r)
        <5>1. lend # None
          BY <3>5, NoneIsNoRow
        <5>2. lend \in {None} \cup LendSet /\ row = (IF lend = None THEN None ELSE LendRow(lend)) /\ lend.txn = CashOut
          BY <3>2, <3>5, <4>1, <4>2, <5>1
        <5> QED
          BY <1>5, <5>1, <5>2, CashSound
      <4>4. SoundBook(c, r)
        BY <3>4, <3>6, <4>1, <4>3 DEF SoundBook
      <4>5. b.settled[CashOut] = None
        BY <1>0, <1>2 DEF PaidRows
      <4>6. \A u \in Slots : b.settled[u] # None => c.rows[u] = b.rows[u]
        BY <1>2, <3>4, <4>1, <4>5
      <4> QED
        BY <1>2, <3>4, <3>5, <4>4, <4>6
    <3>7. CASE l # CashLend
      <4>1. l \in Shares /\ t = Bill
        BY <1>0, <1>1, <2>1, <3>2, <3>7, OneBill
      <4>2. Sound([b.rows EXCEPT ![Bill] = row], [b.lends EXCEPT ![l] = lend], paid, r)
        BY <1>5, <3>1, <3>2, <4>1, ReassignedSound
      <4>3. SoundBook(c, r)
        BY <3>4, <4>1, <4>2 DEF SoundBook
      <4>4. Bill \notin r => b.settled[Bill] = None
        BY <1>1, <4>1, OneBill
      <4>5. \A u \in Slots : b.settled[u] # None /\ u \notin r => c.rows[u] = b.rows[u]
        BY <1>2, <3>4, <4>1, <4>4
      <4> QED
        BY <1>2, <3>4, <3>5, <4>3, <4>5
    <3> QED
      BY <3>6, <3>7
  <2>2. CASE b.lends[l].txn \notin {Bill, CashOut}
    <3>1. PICK lend : lend = [b.lends[l] EXCEPT !.who = p]
      OBVIOUS
    <3>2. c = [b EXCEPT !.settled = paid, !.lends[l] = lend]
      BY <1>8, <1>9, <2>2, <3>1
    <3>3. /\ IsBook(c) /\ c.settled = paid /\ c.covers = b.covers /\ c.lends = [b.lends EXCEPT ![l] = lend] /\ c.rows = b.rows
      BY <3>2 DEF Tabled, IsBook
    <3>4. lend \in LendSet /\ lend.who = p
      BY <1>2, <3>1 DEF LendSet
    <3>5. l \in Shares /\ b.lends[l].txn # Bill
      BY <1>0, <1>2, <2>2 DEF CashRow
    <3>6. Sound(b.rows, [b.lends EXCEPT ![l] = lend], paid, r)
      BY <1>5, <3>1, <3>5, ReassignedSound
    <3>7. SoundBook(c, r)
      BY <3>3, <3>6 DEF SoundBook
    <3> QED
      BY <1>2, <3>3, <3>4, <3>7
  <2> QED
    BY <2>1, <2>2
<1>11. \A k \in LendIds : \/ c.lends[k] = b.lends[k]
                          \/ (b.lends[k] # None => b.lends[k].who \in P) /\ (c.lends[k] # None => c.lends[k].who \in P)
  BY <1>10
<1>12. \A t \in Slots : \/ (b.settled[t] # None => b.settled[t].who \in P) /\ (c.settled[t] # None => c.settled[t].who \in P)
                        \/ /\ b.settled[t] # None /\ c.settled[t] # None /\ c.settled[t].who = b.settled[t].who
                           /\ c.covers[t] = b.covers[t] /\ (t \notin r => c.rows[t] = b.rows[t])
                           /\ \/ c.settled[t].pin = b.settled[t].pin
                              \/ /\ c.settled[t].pin \notin Lent(b, b.settled[t].who)
                                 /\ b.settled[t].pin \notin Lent(b, b.settled[t].who)
  BY <1>5, <1>6, <1>10
<1>13. c.covers \in [Slots -> {None} \cup CoverSet] /\ \A t \in Slots : c.settled[t] = None => c.covers[t] = None
  BY <1>5, <1>10 DEF Tabled
<1> QED
  BY <1>1, <1>10, <1>11, <1>12, <1>13, TouchesOnly

LEMMA SplitTouches ==
  ASSUME NEW b, NEW r, Tabled(b, r), NEW D \in SUBSET Shares, \A l \in D : b.lends[l] = None,
         b.rows[Bill] # None, b.rows[Bill].type = "expense",
         NEW P, NEW who \in [D -> People], \A l \in D : who[l] \in P,
         NEW part \in [D -> Nat], SumOver(part, D) <= b.rows[Bill].amount,
         NEW c, c = SplitAmong(b, who, part)
  PROVE  Touches(b, c, P, r, r)
<1>0. /\ Bill \in Slots /\ \A t \in Slots : b.settled[t] # None => t \in {Bill, Credit} \cup Adjustments
      /\ \A k \in Shares : Cut(k) \notin {Bill, CashOut, Credit} \cup Adjustments /\ Cut(k) - 5 = k
      /\ D \subseteq LendIds
  BY SlotFacts DEF Tabled, SoundBook, Sound, PaidRows
<1>1. SoundBook(b, r) /\ Sound(b.rows, b.lends, b.settled, r)
  BY DEF Tabled, SoundBook
<1>2. /\ b.rows \in [Slots -> {None} \cup RowSet] /\ b.lends \in [LendIds -> {None} \cup LendSet] /\ b.rows[Bill] \in RowSet
      /\ (Bill \notin r => b.settled[Bill] = None)
  BY <1>0, <1>1 DEF Sound, Kinds, PaidRows
<1>3. PICK rest \in Nat : rest = b.rows[Bill].amount - SumOver(part, D)
  <2>1. PICK m \in Nat : m = b.rows[Bill].amount
    BY <1>2 DEF RowSet
  <2>2. IsFiniteSet(D)
    BY SlotFacts, FS_Subset
  <2>3. PICK sum \in Int : sum = SumOver(part, D)
    BY <2>2, TotalOf DEF Terms
  <2>4. m - sum \in Nat
    BY <2>1, <2>3
  <2> QED
    BY <2>1, <2>3, <2>4
<1>5. part \in [D -> Nat] /\ DOMAIN who = D
  OBVIOUS
<1>6. PICK new : new = SplitRows(b.rows, D, part, rest)
  OBVIOUS
<1>7. PICK owed : owed = SplitLends(b.rows, b.lends, D, who, part)
  OBVIOUS
<1>8. c.rows = new
  BY <1>3, <1>5, <1>6 DEF Tabled, IsBook, SplitAmong, SplitRows, SumOver
<1>9. c.lends = owed /\ IsBook(c) /\ c.settled = b.settled /\ c.covers = b.covers
  BY <1>5, <1>7 DEF Tabled, IsBook, SplitAmong, SplitLends
<1>10. SoundBook(c, r)
  <2>1. Sound(new, owed, b.settled, r)
    BY <1>1, <1>3, <1>5, <1>6, <1>7, SplitSound
  <2> QED
    BY <1>8, <1>9, <2>1 DEF SoundBook
<1>11. \A k \in LendIds : \/ c.lends[k] = b.lends[k]
                          \/ (b.lends[k] # None => b.lends[k].who \in P) /\ (c.lends[k] # None => c.lends[k].who \in P)
  BY <1>7, <1>9 DEF SplitLends
<1>12. ASSUME NEW t \in Slots, b.settled[t] # None, t \notin r
       PROVE  c.rows[t] = b.rows[t]
  <2>1. t # Bill /\ ~ \E l \in D : t = Cut(l)
    BY <1>0, <1>2, <1>12
  <2> QED
    BY <1>6, <1>8, <2>1 DEF SplitRows
<1>13. \A t \in Slots : \/ (b.settled[t] # None => b.settled[t].who \in P) /\ (c.settled[t] # None => c.settled[t].who \in P)
                        \/ /\ b.settled[t] # None /\ c.settled[t] # None /\ c.settled[t].who = b.settled[t].who
                           /\ c.covers[t] = b.covers[t] /\ (t \notin r => c.rows[t] = b.rows[t])
                           /\ \/ c.settled[t].pin = b.settled[t].pin
                              \/ /\ c.settled[t].pin \notin Lent(b, b.settled[t].who)
                                 /\ b.settled[t].pin \notin Lent(b, b.settled[t].who)
  BY <1>9, <1>12
<1>14. c.covers \in [Slots -> {None} \cup CoverSet] /\ \A t \in Slots : c.settled[t] = None => c.covers[t] = None
  BY <1>9 DEF Tabled
<1> QED
  BY <1>1, <1>9, <1>10, <1>11, <1>13, <1>14, TouchesOnly

(* A write that covers nothing again: what the payments say is kept, and    *)
(* whoever's lends move in time has been looked at.                         *)
Kept(b, c, r, s) ==
  /\ IsBook(c) /\ SoundBook(c, s) /\ c.covers = b.covers /\ c.settled = b.settled
  /\ \A q \in People : /\ SamePaid(b, c, q, r, s)
                       /\ InOrder(c, q) \/ \A l \in Lent(b, q) : c.lends[l].day = b.lends[l].day

LEMMA KeptGood ==
  ASSUME NEW b, NEW c, NEW r, NEW s, Good(b, r), Kept(b, c, r, s)
  PROVE  Good(c, s)
<1>1. SoundBook(b, r) /\ SoundBook(c, s) /\ PaidUp(b, r) /\ IsBook(c) /\ c.covers = b.covers /\ c.settled = b.settled
  BY DEF Good, Kept
<1>2. b.settled \in [Slots -> {None} \cup PaySet]
  BY <1>1 DEF SoundBook, Sound, Kinds
<1>3. ASSUME NEW t \in Slots
      PROVE  CoverFits(c, t)
  <2>1. CASE b.covers[t] = None
    BY <1>1, <2>1 DEF CoverFits
  <2>2. CASE b.covers[t] # None
    <3>1. /\ b.settled[t] # None /\ b.settled[t].pin = b.covers[t].lend
          /\ b.settled[t].pin \in Lent(b, b.settled[t].who)
      BY <1>1, <2>2 DEF PaidUp, CoverFits
    <3>2. b.settled[t].who \in People
      BY <1>2, <3>1 DEF PaySet
    <3>3. Lent(c, b.settled[t].who) = Lent(b, b.settled[t].who)
      BY <3>2 DEF Kept, SamePaid
    <3> QED
      BY <1>1, <3>1, <3>3 DEF CoverFits
  <2> QED
    BY <2>1, <2>2
<1>4. ASSUME NEW q \in People
      PROVE  (Payments(c, q) \cap s = {} => Current(c, q)) /\ After(c, q, s)
  <2>1. SamePaid(b, c, q, r, s) /\ (InOrder(c, q) \/ \A l \in Lent(b, q) : c.lends[l].day = b.lends[l].day)
    BY DEF Kept
  <2>2. (Payments(b, q) \cap r = {} => Current(b, q)) /\ After(b, q, r)
    BY <1>1 DEF PaidUp
  <2>3. Payments(c, q) \cap s = {} => Current(c, q)
    BY <1>1, <2>1, <2>2, CurrentKept
  <2>4. After(c, q, s)
    BY <1>1, <2>1, <2>2, AfterKept, InOrderAfter
  <2> QED
    BY <2>3, <2>4
<1>5. c.covers \in [Slots -> {None} \cup CoverSet]
  BY <1>1 DEF PaidUp
<1> QED
  BY <1>1, <1>3, <1>4, <1>5 DEF Good, PaidUp

(* Deleting a plain row disturbs no lend and no payment.                    *)
LEMMA DeletedKept ==
  ASSUME NEW b, NEW r, Good(b, r), NEW t \in {Bill, Credit}, b.settled[t] = None,
         \A l \in LendIds : b.lends[l] # None => b.lends[l].txn # t, t = Bill => Cuts(b) = {},
         NEW c, c = [b EXCEPT !.rows[t] = None]
  PROVE  Kept(b, c, r, r) /\ (t = Bill => \A l \in Shares : b.lends[l] = None)
<1>0. t \in Slots
  BY SlotFacts
<1>1. SoundBook(b, r) /\ Sound(b.rows, b.lends, b.settled, r)
  BY DEF Good, SoundBook
<1>2. /\ IsBook(c) /\ c.rows = [b.rows EXCEPT ![t] = None] /\ c.lends = b.lends /\ c.settled = b.settled /\ c.covers = b.covers
  BY DEF Good, IsBook
<1>3. ASSUME t = Bill, NEW l \in Shares
      PROVE  b.lends[l] = None
  <2>1. SUFFICES ASSUME b.lends[l] # None
                 PROVE  FALSE
    OBVIOUS
  <2>2. l \in LendIds /\ Cut(l) \in Slots /\ Cut(l) > 5 /\ b.lends[l].txn \in {Bill, Cut(l)}
    BY <1>1, <2>1, OneBill, SlotFacts
  <2>3. b.rows[Cut(l)] # None
    BY <1>1, <1>3, <2>1, <2>2, OneBill, NoneIsNoRow
  <2>4. Cut(l) \in Cuts(b)
    BY <2>2, <2>3 DEF Cuts
  <2> QED
    BY <1>3, <2>4
<1>4. Sound([b.rows EXCEPT ![t] = None], b.lends, b.settled, r)
  BY <1>1, <1>3, DeletedSound
<1>5. SoundBook(c, r)
  BY <1>2, <1>4 DEF SoundBook
<1>6. ASSUME NEW q \in People
      PROVE  SamePaid(b, c, q, r, r) /\ \A l \in Lent(b, q) : c.lends[l].day = b.lends[l].day
  <2>1. Lent(c, q) = Lent(b, q) /\ Payments(c, q) = Payments(b, q)
    BY <1>2 DEF Lent, Payments
  <2>2. ASSUME NEW u \in Payments(b, q)
        PROVE  c.rows[u] = b.rows[u] /\ c.covers[u] = b.covers[u] /\ c.settled[u] = b.settled[u]
    <3>1. u \in Slots /\ u # t
      BY DEF Payments
    <3>2. b.rows \in [Slots -> {None} \cup RowSet]
      BY <1>1 DEF Sound, Kinds
    <3> QED
      BY <1>2, <3>1, <3>2
  <2> QED
    BY <1>2, <2>1, <2>2 DEF SamePaid
<1> QED
  BY <1>2, <1>3, <1>5, <1>6 DEF Kept

LEMMA EditedRow ==
  ASSUME NEW read, read.type \in Plain, NEW row \in RowSet, NEW new \in Edits(read, row)
  PROVE  /\ new \in RowSet /\ new # None
         /\ new.type = row.type \/ (~read.split /\ new.type \in Plain)
<1>1. {"expense", "income", "refund"} \subseteq RowTypes /\ Plain = {"expense", "income", "refund"}
  BY DEF RowTypes, Plain
<1>2. row = [type |-> row.type, amount |-> row.amount, day |-> row.day] /\ row.type \in RowTypes /\ row.amount \in Nat /\ row.day \in Nat
  BY DEF RowSet
<1>3. CASE \E a \in IF read.split /\ ~read.tool THEN 0..Price ELSE 1..Price : new = [row EXCEPT !.amount = a]
  <2>1. PICK a \in Nat : new = [row EXCEPT !.amount = a]
    BY <1>3, LendsAssumption
  <2>2. new = [type |-> row.type, amount |-> a, day |-> row.day]
    BY <1>2, <2>1
  <2> QED
    BY <1>2, <2>2, NoneIsNoRow DEF RowSet
<1>4. CASE \E d \in Days : new = [row EXCEPT !.day = d]
  <2>1. PICK d \in Nat : new = [row EXCEPT !.day = d]
    BY <1>4, SlotFacts
  <2>2. new = [type |-> row.type, amount |-> row.amount, day |-> d]
    BY <1>2, <2>1
  <2> QED
    BY <1>2, <2>2, NoneIsNoRow DEF RowSet
<1>5. CASE \E ty \in Retypes(read) : new = [row EXCEPT !.type = ty]
  <2>1. PICK ty : ty \in Retypes(read) /\ new = [row EXCEPT !.type = ty]
    BY <1>5
  <2>2. ~read.split
    BY <2>1 DEF Retypes
  <2>3. ty \in Plain
    BY <1>1, <2>1 DEF Retypes
  <2>4. new = [type |-> ty, amount |-> row.amount, day |-> row.day]
    BY <1>2, <2>1
  <2> QED
    BY <1>1, <1>2, <2>2, <2>3, <2>4, NoneIsNoRow DEF RowSet
<1> QED
  BY <1>3, <1>4, <1>5 DEF Edits

(* An edit, or a retyping, of a row that was plain when it was read.        *)
Writes(b, c, r, s, read, new) ==
  LET t == read.row
      e == [b EXCEPT !.rows[t] = new]
      sync == t = Bill /\ (read.tool => read.split)
  IN /\ t \in {Bill, Credit} /\ b.rows[t] # None /\ read.type \in Plain /\ new \in Edits(read, b.rows[t])
     /\ c = IF sync THEN Synced(e) ELSE e
     /\ sync => \A p \in SharedWith(e) : InOrder(c, p)
     /\ s = IF b.rows[t].type # read.type \/ (t = Bill /\ read.split # (Cuts(b) # {})) THEN r \cup {t} ELSE r

LEMMA Unraced ==
  ASSUME NEW b, NEW r, Good(b, r), NEW c, NEW s, NEW read, NEW new, Writes(b, c, r, s, read, new), NEW t, t = read.row
  PROVE  /\ r \subseteq s /\ s \subseteq r \cup {t}
         /\ t \notin s => /\ b.settled[t] = None /\ b.rows[t].type \in Plain
                         /\ (t = Bill => (read.split <=> Cuts(b) # {}))
                         /\ (t = Bill /\ ~read.split => \A l \in Shares : b.lends[l] = None)
         /\ t \in Slots /\ b.rows[t] \in RowSet /\ new \in RowSet /\ new # None
         /\ new.type = b.rows[t].type \/ (~read.split /\ new.type \in Plain)
<1>1. Sound(b.rows, b.lends, b.settled, r)
  BY DEF Good, SoundBook
<1>2. t \in {Bill, Credit} /\ t \in Slots /\ b.rows[t] \in RowSet
  BY <1>1, SlotFacts DEF Writes, Sound, Kinds
<1>3. new \in RowSet /\ new # None /\ (new.type = b.rows[t].type \/ (~read.split /\ new.type \in Plain))
  BY <1>2, EditedRow DEF Writes
<1>4. r \subseteq s /\ s \subseteq r \cup {t}
  BY DEF Writes
<1>5. ASSUME t \notin s
      PROVE  /\ b.settled[t] = None /\ b.rows[t].type \in Plain
             /\ t = Bill => (read.split <=> Cuts(b) # {})
  <2>1. b.rows[t].type = read.type /\ read.type \in Plain /\ t \notin r
    BY <1>5 DEF Writes
  <2>2. t = Bill => read.split <=> Cuts(b) # {}
    BY <1>5 DEF Writes
  <2>3. "lend_repayment" \notin Plain
    BY DEF Plain
  <2>4. b.settled[t] = None
    BY <1>1, <1>2, <2>1, <2>3 DEF Sound, PaidRows
  <2> QED
    BY <2>1, <2>2, <2>4
<1>6. ASSUME t \notin s, t = Bill, ~read.split, NEW l \in Shares
      PROVE  b.lends[l] = None
  <2>1. SUFFICES ASSUME b.lends[l] # None
                 PROVE  FALSE
    OBVIOUS
  <2>2. Cuts(b) = {} /\ b.rows[Bill].type \in Plain /\ Bill \notin r
    BY <1>4, <1>5, <1>6
  <2>3. l \in LendIds /\ Cut(l) \in Slots /\ Cut(l) > 5 /\ b.lends[l].txn \in {Bill, Cut(l)}
    BY <1>1, <2>1, OneBill, SlotFacts
  <2>4. b.lends[l].txn = Bill
    <3>1. SUFFICES ASSUME b.lends[l].txn = Cut(l)
                   PROVE  FALSE
      BY <2>3
    <3>2. b.rows[Cut(l)] # None
      BY <1>1, <2>1, <3>1, OneBill, NoneIsNoRow
    <3> QED
      BY <2>2, <2>3, <3>2 DEF Cuts
  <2>5. b.rows[Bill] = LendRow(b.lends[l])
    BY <1>1, <2>1, <2>2, <2>4, OneBill
  <2>6. b.rows[Bill].type = "lend"
    BY <2>5 DEF LendRow
  <2> QED
    BY <2>2, <2>6 DEF Plain
<1> QED
  BY <1>2, <1>3, <1>4, <1>5, <1>6

LEMMA EditedKept ==
  ASSUME NEW b, NEW r, Good(b, r), NEW c, NEW s, NEW read, NEW new, Writes(b, c, r, s, read, new),
         ~ (read.row = Bill /\ (read.tool => read.split))
  PROVE  /\ Kept(b, c, r, s) /\ c = [b EXCEPT !.rows[read.row] = new]
<1>1. PICK t : t = read.row
  OBVIOUS
<1>2. /\ r \subseteq s /\ s \subseteq r \cup {t}
      /\ t \notin s => /\ b.settled[t] = None /\ b.rows[t].type \in Plain
                       /\ (t = Bill => (read.split <=> Cuts(b) # {}))
                       /\ (t = Bill /\ ~read.split => \A l \in Shares : b.lends[l] = None)
      /\ t \in Slots /\ b.rows[t] \in RowSet /\ new \in RowSet /\ new # None
      /\ new.type = b.rows[t].type \/ (~read.split /\ new.type \in Plain)
  BY <1>1, Unraced
<1>3. c = [b EXCEPT !.rows[t] = new] /\ t \in {Bill, Credit}
  BY <1>1 DEF Writes
<1>4. /\ IsBook(c) /\ c.rows = [b.rows EXCEPT ![t] = new] /\ c.lends = b.lends /\ c.settled = b.settled /\ c.covers = b.covers
  BY <1>3 DEF Good, IsBook
<1>5. SoundBook(b, r) /\ Sound(b.rows, b.lends, b.settled, r)
  BY DEF Good, SoundBook
<1>6. Sound(b.rows, b.lends, b.settled, s) /\ Sound(b.rows, b.lends, b.settled, s)
  BY <1>2, <1>5, SoundMore
<1>7. PICK pay : pay = b.settled[t]
  OBVIOUS
<1>8. SoundBook(c, s)
  <2>1. /\ b.settled \in [Slots -> {None} \cup PaySet] /\ pay \in {None} \cup PaySet
        /\ PaidRows(b.rows, b.lends, b.settled, s)
    BY <1>2, <1>6, <1>7 DEF Sound, Kinds
  <2>2. pay # None => /\ new # None /\ (pay.pin # Overall => b.lends[pay.pin] # None)
                      /\ t \in {Bill, Credit} \ s => new.type = "lend_repayment"
    BY <1>2, <1>7, <2>1 DEF PaidRows
  <2>3. t \notin Adjustments
    BY <1>3, SlotFacts
  <2>4. /\ t = Credit /\ new # None => new.type \in Plain \cup {"lend_repayment"}
        /\ t = Bill /\ new # None => new.type # "writeoff"
    BY <1>2, <2>1, NoneIsNoRow DEF PaidRows, Plain
  <2>5. t = Bill => \/ new = b.rows[Bill]
                    \/ (\A l \in Shares : b.lends[l] = None) /\ (new # None => new.type # "lend")
                    \/ Bill \in s /\ new # None
    <3>1. SUFFICES ASSUME t = Bill, t \notin s
                   PROVE  (\A l \in Shares : b.lends[l] = None) /\ new.type # "lend"
      BY <1>2
    <3>2. ~read.split
      BY <1>1, <3>1
    <3> QED
      BY <1>2, <3>1, <3>2 DEF Plain
  <2>6. Sound([b.rows EXCEPT ![t] = new], b.lends, [b.settled EXCEPT ![t] = pay], s)
    BY <1>2, <1>3, <1>6, <2>1, <2>2, <2>3, <2>4, <2>5, OnePayment
  <2>7. [b.settled EXCEPT ![t] = pay] = b.settled
    BY <1>2, <1>7, <2>1
  <2> QED
    BY <1>4, <2>6, <2>7 DEF SoundBook
<1>9. ASSUME NEW q \in People
      PROVE  SamePaid(b, c, q, r, s) /\ \A l \in Lent(b, q) : c.lends[l].day = b.lends[l].day
  <2>1. Lent(c, q) = Lent(b, q) /\ Payments(c, q) = Payments(b, q)
    BY <1>4 DEF Lent, Payments
  <2>2. ASSUME NEW u \in Payments(b, q)
        PROVE  /\ c.covers[u] = b.covers[u] /\ c.settled[u] = b.settled[u]
               /\ u \notin s => u \notin r /\ c.rows[u] = b.rows[u]
    <3>1. u \in Slots /\ b.settled[u] # None
      BY DEF Payments
    <3>2. b.rows \in [Slots -> {None} \cup RowSet]
      BY <1>5 DEF Sound, Kinds
    <3> QED
      BY <1>2, <1>4, <3>1, <3>2
  <2> QED
    BY <1>4, <2>1, <2>2 DEF SamePaid
<1> QED
  BY <1>1, <1>3, <1>4, <1>8, <1>9 DEF Kept

LEMMA SyncedKept ==
  ASSUME NEW b, NEW r, Good(b, r), NEW c, NEW s, NEW read, NEW new, Writes(b, c, r, s, read, new),
         read.row = Bill, read.tool => read.split
  PROVE  /\ Kept(b, c, r, s)
         /\ c.rows = SyncedRows(b.rows, new) /\ c.lends = SyncedLends(b.lends, new)
<1>2. /\ r \subseteq s /\ s \subseteq r \cup {Bill}
      /\ Bill \notin s => /\ b.settled[Bill] = None /\ b.rows[Bill].type \in Plain
                          /\ (read.split <=> Cuts(b) # {})
                          /\ (~read.split => \A l \in Shares : b.lends[l] = None)
      /\ Bill \in Slots /\ b.rows[Bill] \in RowSet /\ new \in RowSet /\ new # None
      /\ new.type = b.rows[Bill].type \/ (~read.split /\ new.type \in Plain)
  BY Unraced
<1>3. PICK e : e = [b EXCEPT !.rows[Bill] = new]
  OBVIOUS
<1>4. c = Synced(e) /\ \A p \in SharedWith(e) : InOrder(c, p)
  BY <1>3 DEF Writes
<1>5. /\ IsBook(e) /\ e.rows = [b.rows EXCEPT ![Bill] = new] /\ e.lends = b.lends /\ e.settled = b.settled /\ e.covers = b.covers
  BY <1>3 DEF Good, IsBook
<1>6. SoundBook(b, r) /\ Sound(b.rows, b.lends, b.settled, r)
  BY DEF Good, SoundBook
<1>7. Sound(b.rows, b.lends, b.settled, s)
  BY <1>2, <1>6, SoundMore
<1>8. /\ b.rows \in [Slots -> {None} \cup RowSet] /\ b.lends \in [LendIds -> {None} \cup LendSet] /\ b.rows[Bill] # None
      /\ b.settled \in [Slots -> {None} \cup PaySet] /\ \A t \in Slots : b.settled[t] # None => t \in {Bill, Credit} \cup Adjustments
  BY <1>2, <1>7, NoneIsNoRow DEF Sound, Kinds, PaidRows
<1>9. ~ (Bill > 5) /\ Slots \subseteq Nat /\ \A l \in LendIds : b.lends[l] # None => b.lends[l].txn \in Slots
  <2>1. ~ (Bill > 5)
    BY DEF Bill
  <2> QED
    BY <1>8, <2>1, SlotFacts DEF LendSet
<1>10. e.rows[Bill] = new /\ \A t \in Slots : t # Bill => e.rows[t] = b.rows[t]
  BY <1>2, <1>5, <1>8
<1>11. \A t \in Slots : t \in Cuts(e) <=> t > 5 /\ b.rows[t] # None
  BY <1>9, <1>10 DEF Cuts
<1>12. ASSUME NEW l \in LendIds, b.lends[l] # None
       PROVE  b.lends[l].txn \in Cuts(e) <=> b.lends[l].txn > 5
  <2>1. CASE l \in Shares
    <3>1. b.lends[l].txn = Cut(l) => b.rows[Cut(l)] # None
      BY <1>7, <1>12, <2>1, OneBill, NoneIsNoRow
    <3>2. b.lends[l].txn \in {Bill, Cut(l)}
      BY <1>7, <1>12, <2>1, OneBill
    <3> QED
      BY <1>9, <1>11, <1>12, <3>1, <3>2
  <2>2. CASE l \notin Shares
    <3>1. b.lends[l].txn = CashOut
      BY <1>7, <1>12, <2>2, SlotFacts DEF Sound, CashRow
    <3>2. ~ (CashOut > 5)
      BY DEF CashOut
    <3> QED
      BY <1>9, <1>11, <1>12, <3>1, <3>2
  <2> QED
    BY <2>1, <2>2
<1>13. /\ IsBook(c) /\ c.settled = b.settled /\ c.covers = b.covers
       /\ c.rows = [t \in Slots |-> IF t \in Cuts(e) THEN [e.rows[t] EXCEPT !.day = e.rows[Bill].day] ELSE e.rows[t]]
       /\ c.lends = [l \in LendIds |-> IF e.lends[l] # None /\ e.lends[l].txn \in Cuts(e)
                                       THEN [e.lends[l] EXCEPT !.day = e.rows[Bill].day] ELSE e.lends[l]]
  BY <1>4, <1>5 DEF Synced, IsBook
<1>14. c.rows = SyncedRows(b.rows, new)
  <2>1. \A t \in Slots : c.rows[t] = SyncedRows(b.rows, new)[t]
    <3> SUFFICES ASSUME NEW t \in Slots
                 PROVE  c.rows[t] = SyncedRows(b.rows, new)[t]
      OBVIOUS
    <3>1. c.rows[t] = IF t \in Cuts(e) THEN [e.rows[t] EXCEPT !.day = new.day] ELSE e.rows[t]
      BY <1>10, <1>13
    <3>2. SyncedRows(b.rows, new)[t] = IF t = Bill THEN new
                   ELSE IF t > 5 /\ b.rows[t] # None THEN [b.rows[t] EXCEPT !.day = new.day] ELSE b.rows[t]
      BY DEF SyncedRows
    <3> QED
      BY <1>9, <1>10, <1>11, <3>1, <3>2
  <2> QED
    BY <1>13, <2>1 DEF SyncedRows
<1>15. c.lends = SyncedLends(b.lends, new)
  <2>1. \A l \in LendIds : c.lends[l] = SyncedLends(b.lends, new)[l]
    <3> SUFFICES ASSUME NEW l \in LendIds
                 PROVE  c.lends[l] = SyncedLends(b.lends, new)[l]
      OBVIOUS
    <3>1. c.lends[l] = IF b.lends[l] # None /\ b.lends[l].txn \in Cuts(e) THEN [b.lends[l] EXCEPT !.day = new.day] ELSE b.lends[l]
      BY <1>5, <1>10, <1>13
    <3>2. SyncedLends(b.lends, new)[l] = IF b.lends[l] # None /\ b.lends[l].txn > 5 THEN [b.lends[l] EXCEPT !.day = new.day] ELSE b.lends[l]
      BY DEF SyncedLends
    <3> QED
      BY <1>12, <3>1, <3>2
  <2> QED
    BY <1>13, <2>1 DEF SyncedLends
<1>16. SoundBook(c, s)
  <2>1. new.type # "writeoff"
    BY <1>2, <1>7, <1>8 DEF Sound, PaidRows, Plain
  <2>2. Bill \notin s => /\ b.settled[Bill] = None
                         /\ \/ new.type = b.rows[Bill].type /\ b.rows[Bill].type # "lend"
                            \/ new.type # "lend" /\ \A l \in Shares : b.lends[l] = None
    BY <1>2 DEF Plain
  <2>3. Sound(c.rows, c.lends, b.settled, s)
    BY <1>2, <1>7, <1>8, <1>14, <1>15, <2>1, <2>2, SyncedSound
  <2> QED
    BY <1>13, <2>3 DEF SoundBook
<1>17. \A l \in LendIds : /\ c.lends[l] = None <=> b.lends[l] = None
                          /\ b.lends[l] # None => c.lends[l].who = b.lends[l].who /\ c.lends[l].principal = b.lends[l].principal
                          /\ b.lends[l] # None /\ b.lends[l].txn \notin Cuts(e) => c.lends[l] = b.lends[l]
  <2> SUFFICES ASSUME NEW l \in LendIds
               PROVE  /\ c.lends[l] = None <=> b.lends[l] = None
                      /\ b.lends[l] # None => c.lends[l].who = b.lends[l].who /\ c.lends[l].principal = b.lends[l].principal
                      /\ b.lends[l] # None /\ b.lends[l].txn \notin Cuts(e) => c.lends[l] = b.lends[l]
    OBVIOUS
  <2>1. c.lends[l] = IF b.lends[l] # None /\ b.lends[l].txn \in Cuts(e) THEN [b.lends[l] EXCEPT !.day = new.day] ELSE b.lends[l]
    BY <1>5, <1>10, <1>13
  <2>2. CASE b.lends[l] = None
    BY <2>1, <2>2
  <2>3. CASE b.lends[l] # None
    <3>1. b.lends[l] \in LendSet /\ c.lends[l] \in {None} \cup LendSet /\ c.lends[l] # None
      <4>1. b.lends[l] \in LendSet /\ new.day \in Nat
        BY <1>2, <1>8, <2>3 DEF RowSet
      <4>2. c.lends[l] \in LendSet
        BY <2>1, <4>1 DEF LendSet
      <4> QED
        BY <4>1, <4>2, NoneIsNoRow
    <3> QED
      BY <2>1, <2>3, <3>1 DEF LendSet
  <2> QED
    BY <2>2, <2>3
<1>18. \A t \in Slots : t # Bill /\ ~ (t > 5) => c.rows[t] = b.rows[t]
  BY <1>10, <1>11, <1>13
<1>19. \A t \in {Bill, Credit} \cup Adjustments : ~ (t > 5)
  BY DEF Bill, Credit, Adjustments
<1>20. ASSUME NEW q \in People
       PROVE  /\ SamePaid(b, c, q, r, s)
              /\ InOrder(c, q) \/ \A l \in Lent(b, q) : c.lends[l].day = b.lends[l].day
  <2>1. Lent(c, q) = Lent(b, q) /\ Payments(c, q) = Payments(b, q) /\ Lent(e, q) = Lent(b, q)
    BY <1>5, <1>13, <1>17 DEF Lent, Payments
  <2>2. ASSUME NEW u \in Payments(b, q)
        PROVE  /\ c.covers[u] = b.covers[u] /\ c.settled[u] = b.settled[u]
               /\ u \notin s => u \notin r /\ c.rows[u] = b.rows[u]
    <3>1. u \in Slots /\ b.settled[u] # None /\ ~ (u > 5)
      BY <1>8, <1>19 DEF Payments
    <3> QED
      BY <1>2, <1>13, <1>18, <3>1
  <2>3. SamePaid(b, c, q, r, s)
    BY <1>17, <2>1, <2>2 DEF SamePaid, Lent
  <2>4. CASE q \in SharedWith(e)
    BY <1>4, <2>3, <2>4
  <2>5. CASE q \notin SharedWith(e)
    <3>1. \A l \in Lent(b, q) : b.lends[l].txn \notin Cuts(e)
      BY <1>5, <2>1, <2>5 DEF SharedWith
    <3> QED
      BY <1>17, <2>3, <3>1 DEF Lent
  <2> QED
    BY <2>4, <2>5
<1> QED
  BY <1>13, <1>14, <1>15, <1>16, <1>20 DEF Kept

(* Who paid an adjustment that stays does not change.                       *)
PayersKept(b, c) ==
  \A t \in Adjustments : c.settled[t] # None => b.settled[t] # None /\ c.settled[t].who = b.settled[t].who

LEMMA SettlementsKept ==
  ASSUME NEW b, NEW r, Tabled(b, r)
  PROVE  /\ \A l, share : Moved(b, l, share).settled = b.settled /\ IsBook(Moved(b, l, share))
         /\ \A l : Whole(b, l).settled = b.settled /\ IsBook(Whole(b, l))
         /\ \A l, share : Shared(b, l, share).settled = b.settled /\ IsBook(Shared(b, l, share))
         /\ \A p : Marked(b, p).settled = b.settled /\ IsBook(Marked(b, p))
         /\ \A ids, part : SplitAmong(b, ids, part).settled = b.settled
         /\ \A l \in LendIds : Without(b, l).settled = Unpinned(b.settled, l) /\ Unmarked(b, l).settled = Unpinned(b.settled, l)
<1>1. IsBook(b)
  BY DEF Tabled
<1>2. ASSUME NEW l, NEW share, NEW c, c = Moved(b, l, share)
      PROVE  c.settled = b.settled /\ IsBook(c)
  <2>1. PICK bill, row, lend : c = [b EXCEPT !.rows[Bill] = bill, !.rows[Cut(l)] = row, !.lends[l] = lend]
    BY <1>2 DEF Moved
  <2> QED
    BY <1>1, <2>1 DEF IsBook
<1>3. ASSUME NEW l, NEW c, c = Whole(b, l)
      PROVE  c.settled = b.settled /\ IsBook(c)
  <2>1. PICK bill, lend : c = [b EXCEPT !.rows[Bill] = bill, !.rows[Cut(l)] = None, !.lends[l] = lend]
    BY <1>3 DEF Whole
  <2> QED
    BY <1>1, <2>1 DEF IsBook
<1>4. \A l, share : Shared(b, l, share).settled = b.settled /\ IsBook(Shared(b, l, share))
  BY <1>1, <1>2, <1>3 DEF Shared
<1>5. ASSUME NEW p, NEW c, c = Marked(b, p)
      PROVE  c.settled = b.settled /\ IsBook(c)
  <2>1. PICK l, lend : c = [b EXCEPT !.rows[Bill].type = "lend", !.lends[l] = lend]
    BY <1>5 DEF Marked
  <2> QED
    BY <1>1, <2>1 DEF IsBook
<1>6. \A ids, part : SplitAmong(b, ids, part).settled = b.settled
  BY <1>1 DEF SplitAmong, IsBook
<1>7. ASSUME NEW l \in LendIds
      PROVE  Without(b, l).settled = Unpinned(b.settled, l) /\ Unmarked(b, l).settled = Unpinned(b.settled, l)
  <2>2. PICK d : d = Without(b, l)
    OBVIOUS
  <2>3. d.settled = Unpinned(b.settled, l) /\ IsBook(d)
    BY <1>1, <2>2 DEF Without, IsBook, Unpinned
  <2>4. PICK t : t = b.lends[l].txn
    OBVIOUS
  <2>5. CASE t = Bill
    <3>1. Unmarked(b, l) = [d EXCEPT !.rows[Bill].type = "expense"]
      BY <2>2, <2>4, <2>5 DEF Unmarked
    <3> QED
      BY <2>2, <2>3, <3>1 DEF IsBook
  <2>6. CASE t # Bill
    <3>1. Unmarked(b, l) = [d EXCEPT !.rows[t] = None, !.rows[Bill].amount = @ + b.rows[t].amount]
      BY <2>2, <2>4, <2>6 DEF Unmarked
    <3> QED
      BY <2>2, <2>3, <3>1 DEF IsBook
  <2> QED
    BY <2>5, <2>6
<1> QED
  BY <1>2, <1>3, <1>4, <1>5, <1>6, <1>7

LEMMA PayersSame ==
  ASSUME NEW b, NEW r, Tabled(b, r), NEW c, NEW l \in LendIds,
         c.settled = b.settled \/ c.settled = Unpinned(b.settled, l)
  PROVE  PayersKept(b, c)
<1>1. Sound(b.rows, b.lends, b.settled, r) /\ Adjustments \subseteq Slots
  BY SlotFacts DEF Tabled, SoundBook
<1>2. \A t \in Slots : /\ Unpinned(b.settled, l)[t] = None <=> b.settled[t] = None
                       /\ b.settled[t] # None => Unpinned(b.settled, l)[t].who = b.settled[t].who
  BY <1>1, UnpinnedSound
<1> QED
  BY <1>1, <1>2 DEF PayersKept

(* A request that rebalances whom it touches.                               *)
LEMMA Rebalancing ==
  ASSUME NEW b, NEW r, Good(b, r), NEW c, NEW P, NEW s, Touches(b, c, P, r, s), \A p \in P : InOrder(c, p),
         NEW d, d = Rebalanced(c, P), PayersKept(b, c)
  PROVE  Good(d, s) /\ PayersKept(b, d) /\ d.rows = c.rows /\ d.lends = c.lends /\ d.settled = c.settled
<1>1. Good(d, s)
  BY RebalancedGood
<1>2. IsBook(c)
  BY DEF Touches
<1>3. d.rows = c.rows /\ d.lends = c.lends /\ d.settled = c.settled
  BY <1>2 DEF Rebalanced, IsBook
<1> QED
  BY <1>1, <1>3 DEF PayersKept

-----------------------------------------------------------------------------
PendingSet ==
  [kind : {"idle"}] \cup [kind : {"mark"}, split : BOOLEAN]
  \cup [kind : {"settle"}, who : People, pin : LendIds \cup {Overall}]
  \cup [kind : {"repin"}, row : Slots, who : People, pin : LendIds \cup {Overall}]
  \cup [kind : {"forgive"}, who : People, owed : Int, pin : LendIds \cup {Overall}]
  \cup [kind : {"adjust"}, row : Adjustments, who : People, owed : Int]
  \cup [kind : {"edit"}, row : {Bill, Credit}, type : Plain, tool : BOOLEAN, split : BOOLEAN]

\* What an open request will still write is whose it was when it was read.
Asked ==
  /\ pending \in [Editors -> PendingSet]
  /\ \A e \in Editors : pending[e].kind = "adjust" /\ book.settled[pending[e].row] # None
       => book.settled[pending[e].row].who = pending[e].who

LendsInv == Good(book, raced) /\ raced \subseteq {Bill, Credit} /\ Asked

LEMMA PendingIs ==
  ASSUME NEW w \in PendingSet
  PROVE  /\ w.kind = "mark" => w.split \in BOOLEAN
         /\ w.kind \in {"settle", "repin", "forgive"} => w.who \in People /\ w.pin \in LendIds \cup {Overall}
         /\ w.kind = "repin" => w.row \in Slots
         /\ w.kind \in {"forgive", "adjust"} => w.owed \in Int
         /\ w.kind = "adjust" => w.row \in Adjustments /\ w.who \in People
         /\ w.kind = "edit" => w.row \in {Bill, Credit} /\ w.type \in Plain /\ w.tool \in BOOLEAN /\ w.split \in BOOLEAN
BY DEF PendingSet

LEMMA SplitBillKeeps ==
  ASSUME LendsInv, SplitBill
  PROVE  Good(book', raced') /\ PayersKept(book, book')
<1>1. PICK b, r, d : b = book /\ r = raced /\ d = book'
  OBVIOUS
<1>2. Good(b, r) /\ Tabled(b, r) /\ raced' = r
  BY <1>1, TouchedTabled DEF LendsInv, SplitBill, AtOnce
<1>3. PICK ids \in SUBSET {l \in Shares : b.lends[l] = None} :
        \E own \in [ids -> People \ SharedWith(b)], part \in [ids -> 1..Price] : \E new :
           /\ new = {own[l] : l \in ids}
           /\ MapThenSumSet(LAMBDA l : part[l], ids) <= b.rows[Bill].amount
           /\ \A p \in new : InOrder(SplitAmong(b, own, part), p)
           /\ d = Rebalanced(SplitAmong(b, own, part), new)
  BY <1>1 DEF SplitBill, Commits
<1>4. PICK own \in [ids -> People \ SharedWith(b)], part \in [ids -> 1..Price] :
        \E new : /\ new = {own[l] : l \in ids}
                 /\ MapThenSumSet(LAMBDA l : part[l], ids) <= b.rows[Bill].amount
                 /\ \A p \in new : InOrder(SplitAmong(b, own, part), p)
                 /\ d = Rebalanced(SplitAmong(b, own, part), new)
  BY <1>3
<1>5. PICK new, c : /\ new = {own[l] : l \in ids} /\ c = SplitAmong(b, own, part)
                    /\ MapThenSumSet(LAMBDA l : part[l], ids) <= b.rows[Bill].amount
                    /\ \A p \in new : InOrder(c, p)
                    /\ d = Rebalanced(c, new)
  BY <1>4
<1>6. SumOver(part, ids) <= b.rows[Bill].amount
  BY <1>5 DEF SumOver
<1>7. Touches(b, c, new, r, r)
  <2>1. own \in [ids -> People] /\ part \in [ids -> Nat] /\ \A l \in ids : own[l] \in new
    BY <1>5, SlotFacts
  <2>2. ids \in SUBSET Shares /\ (\A l \in ids : b.lends[l] = None)
    BY <1>3
  <2>3. b.rows[Bill] # None /\ b.rows[Bill].type = "expense"
    BY <1>1 DEF SplitBill
  <2> QED
    BY <1>2, <1>5, <1>6, <2>1, <2>2, <2>3, SplitTouches
<1>8. PayersKept(b, c)
  BY <1>2, <1>5, SettlementsKept DEF PayersKept
<1>9. Good(d, r) /\ PayersKept(b, d)
  BY <1>2, <1>5, <1>7, <1>8, Rebalancing
<1> QED
  BY <1>1, <1>2, <1>9

LEMMA TouchesMore ==
  ASSUME NEW b, NEW c, NEW P, NEW Q, NEW r, NEW s, Touches(b, c, P, r, s), P \subseteq Q
  PROVE  Touches(b, c, Q, r, s)
BY DEF Touches

LEMMA CreateLendKeeps ==
  ASSUME LendsInv, CreateLend
  PROVE  Good(book', raced') /\ PayersKept(book, book')
<1>1. PICK b, r, d : b = book /\ r = raced /\ d = book'
  OBVIOUS
<1>2. Good(b, r) /\ Tabled(b, r) /\ raced' = r /\ b.lends[CashLend] = None
  BY <1>1, TouchedTabled DEF LendsInv, CreateLend, AtOnce
<1>3. PICK p \in People, amount \in 1..Price, day \in Days :
        \E c : /\ c = [b EXCEPT !.rows[CashOut] = [type |-> "lend", amount |-> amount, day |-> day],
                            !.lends[CashLend] = [who |-> p, principal |-> amount, txn |-> CashOut, day |-> day]]
               /\ \A q \in {p} : InOrder(c, q)
               /\ d = Rebalanced(c, {p})
  BY <1>1 DEF CreateLend, Commits
<1>4. PICK c, lend, P :
               /\ c = [b EXCEPT !.rows[CashOut] = [type |-> "lend", amount |-> amount, day |-> day],
                            !.lends[CashLend] = lend]
               /\ lend = [who |-> p, principal |-> amount, txn |-> CashOut, day |-> day]
               /\ \A q \in P : InOrder(c, q)
               /\ d = Rebalanced(c, P)
               /\ P = {p}
  BY <1>3
<1>5. lend \in LendSet /\ lend.txn = CashOut /\ lend.who \in P
  BY <1>4, SlotFacts DEF LendSet
<1>6. c = [b EXCEPT !.rows[CashOut] = LendRow(lend), !.lends[CashLend] = lend]
  BY <1>4 DEF LendRow
<1>7. Touches(b, c, P, r, r)
  BY <1>2, <1>5, <1>6, CashTouches
<1>8. c.settled = b.settled
  BY <1>2, <1>6 DEF Tabled, IsBook
<1>9. PayersKept(b, c)
  BY <1>8 DEF PayersKept
<1>10. (\A q \in P : InOrder(c, q)) /\ d = Rebalanced(c, P)
  BY <1>4
<1>11. Good(d, r) /\ PayersKept(b, d)
  BY <1>2, <1>7, <1>9, <1>10, Rebalancing
<1> QED
  BY <1>1, <1>2, <1>11

LEMMA ReassignedSettled ==
  ASSUME NEW b, NEW r, Tabled(b, r), NEW l \in LendIds, NEW p, NEW amount, NEW day, NEW c, c = Reassigned(b, l, p, amount, day)
  PROVE  c.settled = b.settled \/ c.settled = Unpinned(b.settled, l)
<1>1. IsBook(b)
  BY DEF Tabled
<1>2. PICK unpinned : unpinned = IF b.lends[l].who = p THEN b.settled
                ELSE [t \in Slots |-> IF b.settled[t] # None /\ b.settled[t].pin = l
                                        THEN [b.settled[t] EXCEPT !.pin = Overall] ELSE b.settled[t]]
  OBVIOUS
<1>3. unpinned = b.settled \/ unpinned = Unpinned(b.settled, l)
  BY <1>2 DEF Unpinned
<1>4. c = IF b.lends[l].txn \in {Bill, CashOut}
          THEN [b EXCEPT !.settled = unpinned,
                    !.lends[l] = [@ EXCEPT !.who = p, !.principal = amount, !.day = day],
                    !.rows[b.lends[l].txn] = [@ EXCEPT !.amount = amount, !.day = day]]
          ELSE [b EXCEPT !.settled = unpinned, !.lends[l].who = p]
  BY <1>2 DEF Reassigned
<1>5. c.settled = unpinned
  <2>1. CASE b.lends[l].txn \in {Bill, CashOut}
    <3>1. PICK lend, row : c = [b EXCEPT !.settled = unpinned, !.lends[l] = lend, !.rows[b.lends[l].txn] = row]
      BY <1>4, <2>1
    <3> QED
      BY <1>1, <3>1 DEF IsBook
  <2>2. CASE b.lends[l].txn \notin {Bill, CashOut}
    <3>1. c = [b EXCEPT !.settled = unpinned, !.lends[l].who = p]
      BY <1>4, <2>2
    <3> QED
      BY <1>1, <3>1 DEF IsBook
  <2> QED
    BY <2>1, <2>2
<1> QED
  BY <1>3, <1>5

LEMMA UpdateLendKeeps ==
  ASSUME LendsInv, UpdateLend
  PROVE  Good(book', raced') /\ PayersKept(book, book')
<1>1. PICK b, r, d : b = book /\ r = raced /\ d = book'
  OBVIOUS
<1>2. Good(b, r) /\ Tabled(b, r) /\ raced' = r
  BY <1>1, TouchedTabled DEF LendsInv, UpdateLend, AtOnce
<1>3. PICK l \in LendIds :
        \E p \in People, amount \in 1..Price, day \in Days :
          /\ b.lends[l] # None
          /\ \E e : /\ e = IF l = CashLend \/ amount = b.lends[l].principal THEN b ELSE Shared(b, l, amount)
                    /\ l = CashLend \/ amount = b.lends[l].principal \/ CanShare(b, l, amount)
                    /\ \A q \in {b.lends[l].who, p} : InOrder(Reassigned(e, l, p, amount, day), q)
                    /\ d = Rebalanced(Reassigned(e, l, p, amount, day), {b.lends[l].who, p})
  BY <1>1 DEF UpdateLend, Commits
<1>4. PICK p \in People, amount \in 1..Price, day \in Days :
          /\ b.lends[l] # None
          /\ \E e : /\ e = IF l = CashLend \/ amount = b.lends[l].principal THEN b ELSE Shared(b, l, amount)
                    /\ l = CashLend \/ amount = b.lends[l].principal \/ CanShare(b, l, amount)
                    /\ \A q \in {b.lends[l].who, p} : InOrder(Reassigned(e, l, p, amount, day), q)
                    /\ d = Rebalanced(Reassigned(e, l, p, amount, day), {b.lends[l].who, p})
  BY <1>3
<1>5. PICK e, c, P :
        /\ P = {b.lends[l].who, p} /\ c = Reassigned(e, l, p, amount, day)
        /\ e = IF l = CashLend \/ amount = b.lends[l].principal THEN b ELSE Shared(b, l, amount)
        /\ l = CashLend \/ amount = b.lends[l].principal \/ CanShare(b, l, amount)
        /\ \A q \in P : InOrder(c, q)
        /\ d = Rebalanced(c, P)
  BY <1>4
<1>6. Touches(b, e, P, r, r) /\ e.lends[l] # None /\ e.lends[l].who = b.lends[l].who /\ e.settled = b.settled
  <2>1. CASE l = CashLend \/ amount = b.lends[l].principal
    <3>1. e = b
      BY <1>5, <2>1
    <3> QED
      BY <1>2, <1>4, <3>1, SameTouches
  <2>2. CASE ~ (l = CashLend \/ amount = b.lends[l].principal)
    <3>1. e = Shared(b, l, amount) /\ CanShare(b, l, amount) /\ l \in Shares
      BY <1>5, <2>2, SlotFacts
    <3>2. PICK Q : Q = {b.lends[l].who}
      OBVIOUS
    <3>3. Touches(b, e, Q, r, r) /\ e.lends[l] # None /\ e.lends[l].who = b.lends[l].who
      BY <1>2, <1>4, <3>1, <3>2, SharedTouches
    <3>4. Q \subseteq P
      BY <1>5, <3>2
    <3>5. Touches(b, e, P, r, r)
      BY <3>3, <3>4, TouchesMore
    <3> QED
      BY <1>2, <3>1, <3>3, <3>5, SettlementsKept
  <2> QED
    BY <2>1, <2>2
<1>7. Tabled(e, r)
  BY <1>6, TouchedTabled
<1>8. Touches(e, c, P, r, r)
  <2>1. amount \in Nat /\ day \in Nat /\ P = {e.lends[l].who, p}
    BY <1>5, <1>6, SlotFacts
  <2> QED
    BY <1>5, <1>6, <1>7, <2>1, ReassignedTouches
<1>9. Touches(b, c, P, r, r)
  BY <1>6, <1>8, TouchesThen
<1>10. PayersKept(b, c)
  <2>1. c.settled = b.settled \/ c.settled = Unpinned(b.settled, l)
    BY <1>5, <1>6, <1>7, ReassignedSettled
  <2> QED
    BY <1>2, <2>1, PayersSame
<1>11. Good(d, r) /\ PayersKept(b, d)
  BY <1>2, <1>5, <1>9, <1>10, Rebalancing
<1> QED
  BY <1>1, <1>2, <1>11

LEMMA DeleteLendKeeps ==
  ASSUME LendsInv, DeleteLend
  PROVE  Good(book', raced') /\ PayersKept(book, book')
<1>1. PICK b, r, d : b = book /\ r = raced /\ d = book'
  OBVIOUS
<1>2. Good(b, r) /\ Tabled(b, r) /\ raced' = r
  BY <1>1, TouchedTabled DEF LendsInv, DeleteLend, AtOnce
<1>3. PICK l \in LendIds :
        /\ b.lends[l] # None
        /\ \E c : /\ c = IF l = CashLend THEN [Without(b, l) EXCEPT !.rows[CashOut] = None] ELSE Unmarked(b, l)
                  /\ \A q \in {b.lends[l].who} : InOrder(c, q)
                  /\ d = Rebalanced(c, {b.lends[l].who})
  BY <1>1 DEF DeleteLend, Commits
<1>4. PICK c, P : /\ c = IF l = CashLend THEN [Without(b, l) EXCEPT !.rows[CashOut] = None] ELSE Unmarked(b, l)
                  /\ P = {b.lends[l].who}
                  /\ \A q \in P : InOrder(c, q)
                  /\ d = Rebalanced(c, P)
  BY <1>3
<1>5. Touches(b, c, P, r, r) /\ c.settled = Unpinned(b.settled, l)
  <2>1. CASE l = CashLend
    <3>1. c = [Without(b, CashLend) EXCEPT !.rows[CashOut] = None]
      BY <1>4, <2>1
    <3>2. Touches(b, c, {b.lends[CashLend].who}, r, r)
      BY <1>2, <1>3, <2>1, <3>1, CashGoneTouches
    <3>3. PICK e : e = Without(b, l)
      OBVIOUS
    <3>4. e.settled = Unpinned(b.settled, l) /\ c = [e EXCEPT !.rows[CashOut] = None]
      BY <1>2, <2>1, <3>1, <3>3, SettlementsKept
    <3>5. IsBook(e)
      BY <1>2, <3>3 DEF Tabled, IsBook, Without
    <3>6. c.settled = e.settled
      BY <3>4, <3>5 DEF IsBook
    <3> QED
      BY <1>4, <2>1, <3>2, <3>4, <3>6
  <2>2. CASE l # CashLend
    <3>1. c = Unmarked(b, l) /\ l \in Shares
      BY <1>4, <2>2, SlotFacts
    <3>2. Touches(b, c, {b.lends[l].who}, r, r)
      BY <1>2, <1>3, <3>1, UnmarkedTouches
    <3> QED
      BY <1>2, <1>4, <3>1, <3>2, SettlementsKept
  <2> QED
    BY <2>1, <2>2
<1>6. PayersKept(b, c)
  BY <1>2, <1>5, PayersSame
<1>7. Good(d, r) /\ PayersKept(b, d)
  BY <1>2, <1>4, <1>5, <1>6, Rebalancing
<1> QED
  BY <1>1, <1>2, <1>7

LEMMA UnsettleKeeps ==
  ASSUME LendsInv, Unsettle
  PROVE  Good(book', raced') /\ PayersKept(book, book')
<1>1. PICK b, r, d : b = book /\ r = raced /\ d = book'
  OBVIOUS
<1>2. Good(b, r) /\ Tabled(b, r) /\ raced' = r /\ IsBook(b)
  BY <1>1, TouchedTabled DEF LendsInv, Unsettle, AtOnce, Good
<1>3. PICK t \in Slots : /\ b.settled[t] # None
                         /\ \E c : /\ c = Unsettled(b, t)
                                   /\ \A q \in {b.settled[t].who} : InOrder(c, q)
                                   /\ d = Rebalanced(c, {b.settled[t].who})
  BY <1>1 DEF Unsettle, Commits
<1>4. PICK c, P : /\ c = Unsettled(b, t) /\ P = {b.settled[t].who}
                  /\ \A q \in P : InOrder(c, q)
                  /\ d = Rebalanced(c, P)
  BY <1>3
<1>5. Touches(b, c, P, r, r)
  BY <1>2, <1>3, <1>4, UnsettledTouches
<1>6. c.settled = [b.settled EXCEPT ![t] = None] /\ b.settled \in [Slots -> {None} \cup PaySet]
  BY <1>2, <1>4 DEF Unsettled, IsBook, Good, SoundBook, Sound, Kinds
<1>7. PayersKept(b, c)
  BY <1>6, SlotFacts DEF PayersKept
<1>8. Good(d, r) /\ PayersKept(b, d)
  BY <1>2, <1>4, <1>5, <1>7, Rebalancing
<1> QED
  BY <1>1, <1>2, <1>8

LEMMA DeleteTransactionKeeps ==
  ASSUME LendsInv, DeleteTransaction
  PROVE  Good(book', raced') /\ PayersKept(book, book')
<1>1. PICK b, r, d : b = book /\ r = raced /\ d = book'
  OBVIOUS
<1>2. Good(b, r) /\ raced' = r /\ IsBook(b)
  BY <1>1 DEF LendsInv, DeleteTransaction, Good
<1>3. PICK t \in {Bill, Credit} :
       /\ b.rows[t] # None /\ b.settled[t] = None
       /\ \A l \in LendIds : b.lends[l] # None => b.lends[l].txn # t
       /\ t = Bill => Cuts(b) = {}
       /\ d = [b EXCEPT !.rows[t] = None]
  BY <1>1 DEF DeleteTransaction
<1>4. Kept(b, d, r, r)
  BY <1>2, <1>3, DeletedKept
<1>5. Good(d, r) /\ d.settled = b.settled
  BY <1>2, <1>4, KeptGood DEF Kept
<1> QED
  BY <1>1, <1>2, <1>5 DEF PayersKept

LEMMA MarkPaidForKeeps ==
  ASSUME LendsInv, NEW e \in Editors, MarkPaidFor(e)
  PROVE  Good(book', raced') /\ PayersKept(book, book')
<1>1. PICK b, r, d, s : b = book /\ r = raced /\ d = book' /\ s = raced'
  OBVIOUS
<1>2. Good(b, r) /\ Tabled(b, r)
  BY <1>1, TouchedTabled DEF LendsInv
<1>3. /\ b.rows[Bill] # None /\ b.rows[Bill].type = "expense" /\ b.rows[Bill].amount > 0
      /\ \E l \in Shares : b.lends[l] = None
      /\ s = IF Cuts(b) # {} THEN r \cup {Bill} ELSE r
  BY <1>1 DEF MarkPaidFor
<1>4. r \subseteq s /\ (Bill \in s \/ Cuts(b) = {})
  BY <1>3
<1>5. PICK p \in People, share \in 1..b.rows[Bill].amount :
        \E c : /\ c = Shared(Marked(b, p), FreeShare(b), share)
               /\ \A q \in {p} : InOrder(c, q)
               /\ d = Rebalanced(c, {p})
  BY <1>1 DEF MarkPaidFor, Commits
<1>6. PICK l, m, c, P :
        /\ l = FreeShare(b) /\ m = Marked(b, p) /\ c = Shared(m, l, share) /\ P = {p}
        /\ \A q \in P : InOrder(c, q)
        /\ d = Rebalanced(c, P)
  BY <1>5
<1>7. /\ Touches(b, m, {p}, r, s)
      /\ l \in Shares /\ m.lends[l] # None /\ m.lends[l].who = p /\ m.lends[l].txn = Bill
      /\ m.rows[Bill].amount = b.rows[Bill].amount
  <2>1. l = FreeShare(b) /\ m = Marked(b, p)
    BY <1>6
  <2>2. Marks(b, m, l, p, r, s)
    BY <1>2, <1>3, <1>4, <2>1 DEF Marks
  <2>3. Touches(b, m, {p}, r, s)
    BY <2>2, MarkedTouches
  <2>4. Holds(m, l, p) /\ l \in Shares
    BY <2>2, <2>3, MarkedTouches
  <2>5. m.rows[Bill].amount = b.rows[Bill].amount
    BY <2>2, <2>3, MarkedTouches
  <2> QED
    BY <2>3, <2>4, <2>5 DEF Holds
<1>8. Tabled(m, s)
  BY <1>7, TouchedTabled
<1>9. CanShare(m, l, share)
  <2>1. Total(m, l) = m.rows[Bill].amount
    BY <1>7, <1>8, TotalIsNat
  <2>2. share \in 1..Total(m, l)
    BY <1>7, <2>1
  <2> QED
    BY <1>7, <2>2 DEF CanShare
<1>10. Touches(m, c, P, s, s)
  BY <1>6, <1>7, <1>8, <1>9, SharedTouches
<1>11. Touches(b, c, P, r, s)
  BY <1>6, <1>7, <1>10, TouchesThen
<1>12. PayersKept(b, c)
  BY <1>2, <1>6, <1>8, SettlementsKept DEF PayersKept
<1>13. (\A q \in P : InOrder(c, q)) /\ d = Rebalanced(c, P)
  BY <1>6
<1>14. Good(d, s) /\ PayersKept(b, d)
  BY <1>2, <1>11, <1>12, <1>13, Rebalancing
<1> QED
  BY <1>1, <1>14

LEMMA SettleWithKeeps ==
  ASSUME LendsInv, NEW e \in Editors, SettleWith(e)
  PROVE  Good(book', raced') /\ PayersKept(book, book')
<1>1. PICK b, r, d, w : b = book /\ r = raced /\ d = book' /\ w = pending[e]
  OBVIOUS
<1>2. Good(b, r) /\ IsBook(b) /\ raced' = r
  BY <1>1 DEF LendsInv, SettleWith, Good
<1>3. w.who \in People /\ w.pin \in LendIds \cup {Overall} /\ (w.pin # Overall => b.lends[w.pin] # None)
  BY <1>1, PendingIs DEF LendsInv, Asked, SettleWith, CanPin
<1>4. PICK t \in {Bill, Credit} :
       /\ b.rows[t] # None /\ b.rows[t].type = "income" /\ b.settled[t] = None
       /\ \E c : /\ c = Settled(b, t, w.who, w.pin)
                 /\ \A q \in {w.who} : InOrder(c, q)
                 /\ d = Rebalanced(c, {w.who})
  BY <1>1 DEF SettleWith, Commits
<1>5. PICK c, P : /\ c = Settled(b, t, w.who, w.pin) /\ P = {w.who}
                  /\ \A q \in P : InOrder(c, q)
                  /\ d = Rebalanced(c, P)
  BY <1>4
<1>6. Touches(b, c, P, r, r)
  BY <1>2, <1>3, <1>4, <1>5, SettledTouches
<1>7. c.settled = [b.settled EXCEPT ![t] = [who |-> w.who, pin |-> w.pin]] /\ b.settled \in [Slots -> {None} \cup PaySet]
  BY <1>2, <1>5 DEF Settled, IsBook, Good, SoundBook, Sound, Kinds
<1>8. PayersKept(b, c)
  BY <1>7, SlotFacts DEF PayersKept
<1>9. Good(d, r) /\ PayersKept(b, d)
  BY <1>2, <1>5, <1>6, <1>8, Rebalancing
<1> QED
  BY <1>1, <1>2, <1>9

LEMMA SetSettlementLendKeeps ==
  ASSUME LendsInv, NEW e \in Editors, SetSettlementLend(e)
  PROVE  Good(book', raced') /\ PayersKept(book, book')
<1>1. PICK b, r, d, w : b = book /\ r = raced /\ d = book' /\ w = pending[e]
  OBVIOUS
<1>2. Good(b, r) /\ IsBook(b) /\ raced' = r
  BY <1>1 DEF LendsInv, SetSettlementLend, Good
<1>3. w.who \in People /\ w.pin \in LendIds \cup {Overall} /\ (w.pin # Overall => b.lends[w.pin] # None) /\ w.row \in Slots
  BY <1>1, PendingIs DEF LendsInv, Asked, SetSettlementLend, CanPin
<1>4. /\ b.settled[w.row] # None /\ b.settled[w.row].who = w.who
      /\ \E c : /\ c = [b EXCEPT !.settled[w.row].pin = w.pin]
                /\ \A q \in {w.who} : InOrder(c, q)
                /\ d = Rebalanced(c, {w.who})
  BY <1>1 DEF SetSettlementLend, Commits
<1>5. PICK c, P : /\ c = [b EXCEPT !.settled[w.row].pin = w.pin] /\ P = {w.who}
                  /\ \A q \in P : InOrder(c, q)
                  /\ d = Rebalanced(c, P)
  BY <1>4
<1>6. Touches(b, c, P, r, r)
  BY <1>2, <1>3, <1>4, <1>5, PinnedTouches
<1>7. c.settled = [b.settled EXCEPT ![w.row].pin = w.pin] /\ b.settled \in [Slots -> {None} \cup PaySet]
  BY <1>2, <1>5 DEF IsBook, Good, SoundBook, Sound, Kinds
<1>8. PayersKept(b, c)
  <2>1. c.settled[w.row].who = b.settled[w.row].who
    BY <1>3, <1>4, <1>7 DEF PaySet
  <2> QED
    BY <1>3, <1>4, <1>7, <2>1, SlotFacts DEF PayersKept
<1>9. (\A q \in P : InOrder(c, q)) /\ d = Rebalanced(c, P)
  BY <1>5
<1>10. Good(d, r) /\ PayersKept(b, d)
  BY <1>2, <1>6, <1>8, <1>9, Rebalancing
<1> QED
  BY <1>1, <1>2, <1>10

LEMMA ForgiveKeeps ==
  ASSUME LendsInv, NEW e \in Editors, Forgive(e)
  PROVE  /\ Good(book', raced')
         /\ \E u \in Adjustments \ Awaited : \A t \in Adjustments : t # u => book'.settled[t] = book.settled[t]
<1>1. PICK b, r, d, w : b = book /\ r = raced /\ d = book' /\ w = pending[e]
  OBVIOUS
<1>2. Good(b, r) /\ IsBook(b) /\ raced' = r
  BY <1>1 DEF LendsInv, Forgive, Good
<1>3. w.who \in People /\ w.pin \in LendIds \cup {Overall} /\ (w.pin # Overall => b.lends[w.pin] # None) /\ w.owed \in Int
  BY <1>1, PendingIs DEF LendsInv, Asked, Forgive, CanPin
<1>4. PICK amount \in 1..w.owed, day \in Days :
      \E t \in Adjustments \ Awaited :
       /\ b.rows[t] = None
       /\ \E c : /\ c = [b EXCEPT !.rows[t] = [type |-> "writeoff", amount |-> amount, day |-> day],
                                  !.settled[t] = [who |-> w.who, pin |-> w.pin]]
                 /\ \A q \in {w.who} : InOrder(c, q)
                 /\ d = Rebalanced(c, {w.who})
  BY <1>1 DEF Forgive, Commits
<1>5. PICK t \in Adjustments \ Awaited :
       /\ b.rows[t] = None
       /\ \E c : /\ c = [b EXCEPT !.rows[t] = [type |-> "writeoff", amount |-> amount, day |-> day],
                                  !.settled[t] = [who |-> w.who, pin |-> w.pin]]
                 /\ \A q \in {w.who} : InOrder(c, q)
                 /\ d = Rebalanced(c, {w.who})
  BY <1>4
<1>6. PICK row, pay, c : /\ row = [type |-> "writeoff", amount |-> amount, day |-> day]
                         /\ pay = [who |-> w.who, pin |-> w.pin]
                         /\ c = [b EXCEPT !.rows[t] = row, !.settled[t] = pay]
                         /\ \A q \in {w.who} : InOrder(c, q)
                         /\ d = Rebalanced(c, {w.who})
  BY <1>5
<1>7. row \in RowSet /\ row.type = "writeoff" /\ pay \in PaySet /\ pay.who = w.who /\ pay.pin = w.pin
  BY <1>3, <1>6, SlotFacts DEF RowSet, RowTypes, PaySet
<1>8. b.settled[t] = None /\ t \in Adjustments /\ b.settled \in [Slots -> {None} \cup PaySet] /\ Adjustments \subseteq Slots
  BY <1>2, <1>5, SlotFacts DEF Good, SoundBook, Sound, PaidRows, Kinds
<1>9. PICK P : P = {pay.who}
  OBVIOUS
<1>10. (\A q \in P : InOrder(c, q)) /\ d = Rebalanced(c, P)
  BY <1>6, <1>7, <1>9
<1>11. Touches(b, c, P, r, r)
  <2>1. c = [b EXCEPT !.rows[t] = row, !.settled[t] = pay]
    BY <1>6
  <2>2. Touches(b, c, {pay.who}, r, r)
    BY <1>2, <1>3, <1>7, <1>8, <2>1, WrittenOffTouches
  <2> QED
    BY <1>9, <2>2
<1>12. Good(d, r)
  BY <1>2, <1>10, <1>11, RebalancedGood
<1>13. d.settled = [b.settled EXCEPT ![t] = pay]
  BY <1>2, <1>6 DEF Rebalanced, IsBook
<1>14. \A u \in Adjustments : u # t => d.settled[u] = b.settled[u]
  BY <1>8, <1>13
<1> QED
  BY <1>1, <1>2, <1>5, <1>12, <1>14

LEMMA EditAdjustmentKeeps ==
  ASSUME LendsInv, NEW e \in Editors, EditAdjustment(e)
  PROVE  Good(book', raced') /\ PayersKept(book, book')
<1>1. PICK b, r, d, w : b = book /\ r = raced /\ d = book' /\ w = pending[e]
  OBVIOUS
<1>2. Good(b, r) /\ IsBook(b) /\ raced' = r
  BY <1>1 DEF LendsInv, EditAdjustment, Good
<1>3. /\ w.who \in People /\ w.row \in Adjustments /\ w.owed \in Int
      /\ b.settled[w.row] # None => b.settled[w.row].who = w.who
  BY <1>1, PendingIs DEF LendsInv, Asked, EditAdjustment
<1>4. PICK row : /\ \/ \E a \in 1..w.owed : row = [b.rows[w.row] EXCEPT !.amount = a]
                    \/ \E day \in Days : row = [b.rows[w.row] EXCEPT !.day = day]
                 /\ b.rows[w.row] # None
                 /\ \E c : /\ c = [b EXCEPT !.rows[w.row] = row]
                           /\ \A q \in {w.who} : InOrder(c, q)
                           /\ d = Rebalanced(c, {w.who})
  BY <1>1 DEF EditAdjustment, Commits
<1>5. PICK t, pay, c, P : /\ t = w.row /\ pay = b.settled[t] /\ P = {w.who}
                          /\ c = [b EXCEPT !.rows[w.row] = row]
                          /\ \A q \in P : InOrder(c, q)
                          /\ d = Rebalanced(c, P)
  BY <1>4
<1>6. /\ b.settled[t] # None /\ b.settled[t].who = pay.who /\ b.rows[t].type = "writeoff" /\ pay \in PaySet /\ pay.who = w.who /\ b.rows[t] \in RowSet
      /\ pay.pin # Overall => b.lends[pay.pin] # None
      /\ t \in Slots /\ t \in Adjustments /\ b.settled \in [Slots -> {None} \cup PaySet]
  BY <1>2, <1>3, <1>4, <1>5, SlotFacts DEF Good, SoundBook, Sound, PaidRows, Kinds
<1>7. row \in RowSet /\ row.type = "writeoff"
  <2>1. CASE \E a \in 1..w.owed : row = [b.rows[w.row] EXCEPT !.amount = a]
    <3>1. PICK a \in Nat : row = [b.rows[t] EXCEPT !.amount = a]
      BY <1>3, <1>5, <2>1
    <3> QED
      BY <1>6, <3>1 DEF RowSet
  <2>2. CASE \E day \in Days : row = [b.rows[w.row] EXCEPT !.day = day]
    <3>1. PICK day \in Nat : row = [b.rows[t] EXCEPT !.day = day]
      BY <1>5, <2>2, SlotFacts
    <3> QED
      BY <1>6, <3>1 DEF RowSet
  <2> QED
    BY <1>4, <2>1, <2>2
<1>8. c = [b EXCEPT !.rows[t] = row, !.settled[t] = pay]
  <2>1. [b.settled EXCEPT ![t] = pay] = b.settled
    BY <1>5, <1>6
  <2>2. PICK f : f = [b EXCEPT !.rows[t] = row, !.settled[t] = pay]
    OBVIOUS
  <2>3. f.rows = [b.rows EXCEPT ![t] = row] /\ f.settled = b.settled /\ f.lends = b.lends /\ f.covers = b.covers /\ IsBook(f)
    BY <1>2, <2>1, <2>2 DEF IsBook
  <2>4. c.rows = [b.rows EXCEPT ![t] = row] /\ c.settled = b.settled /\ c.lends = b.lends /\ c.covers = b.covers /\ IsBook(c)
    BY <1>2, <1>5 DEF IsBook
  <2>5. c = f
    BY <2>3, <2>4 DEF IsBook
  <2> QED
    BY <2>2, <2>5
<1>9. Touches(b, c, P, r, r)
  <2>1. Touches(b, c, {pay.who}, r, r)
    <3>1. c = [b EXCEPT !.rows[t] = row, !.settled[t] = pay]
      BY <1>8
    <3>2. /\ t \in Adjustments /\ row \in RowSet /\ row.type = "writeoff" /\ pay \in PaySet
          /\ pay.pin # Overall => b.lends[pay.pin] # None
          /\ b.settled[t] # None => b.settled[t].who = pay.who
      BY <1>6, <1>7
    <3> QED
      BY <1>2, <3>1, <3>2, WrittenOffTouches
  <2> QED
    BY <1>5, <1>6, <2>1
<1>10. PayersKept(b, c)
  <2>1. c.settled = b.settled
    BY <1>2, <1>5 DEF IsBook
  <2> QED
    BY <2>1 DEF PayersKept
<1>11. (\A q \in P : InOrder(c, q)) /\ d = Rebalanced(c, P)
  BY <1>5
<1>12. Good(d, r) /\ PayersKept(b, d)
  BY <1>2, <1>9, <1>10, <1>11, Rebalancing
<1> QED
  BY <1>1, <1>2, <1>12

LEMMA WriteTransactionKeeps ==
  ASSUME LendsInv, NEW e \in Editors, WriteTransaction(e)
  PROVE  Good(book', raced') /\ PayersKept(book, book') /\ raced' \subseteq {Bill, Credit}
<1>1. PICK b, r, d, s, w : b = book /\ r = raced /\ d = book' /\ s = raced' /\ w = pending[e]
  OBVIOUS
<1>2. Good(b, r) /\ r \subseteq {Bill, Credit}
  BY <1>1 DEF LendsInv
<1>3. w.row \in {Bill, Credit} /\ w.type \in Plain
  BY <1>1, PendingIs DEF LendsInv, Asked, WriteTransaction
<1>4. PICK new : new \in Edits(w, b.rows[w.row]) /\ Writes(b, d, r, s, w, new)
  <2>1. PICK t : t = w.row
    OBVIOUS
  <2>2. PICK new : /\ b.rows[t] # None /\ new \in Edits(w, b.rows[t])
                   /\ \E f, sync : /\ f = [b EXCEPT !.rows[t] = new] /\ sync = (t = Bill /\ (w.tool => w.split))
                                   /\ d = IF sync THEN Synced(f) ELSE f
                                   /\ sync => \A p \in SharedWith(f) : InOrder(d, p)
                   /\ s = IF b.rows[t].type # w.type \/ (t = Bill /\ w.split # (Cuts(b) # {})) THEN r \cup {t} ELSE r
    BY <1>1, <2>1 DEF WriteTransaction
  <2> QED
    BY <1>3, <2>1, <2>2 DEF Writes
<1>5. Kept(b, d, r, s)
  <2>1. CASE w.row = Bill /\ (w.tool => w.split)
    BY <1>2, <1>4, <2>1, SyncedKept
  <2>2. CASE ~ (w.row = Bill /\ (w.tool => w.split))
    BY <1>2, <1>4, <2>2, EditedKept
  <2> QED
    BY <2>1, <2>2
<1>6. Good(d, s) /\ d.settled = b.settled
  BY <1>2, <1>5, KeptGood DEF Kept
<1>7. s \subseteq {Bill, Credit}
  BY <1>2, <1>3, <1>4 DEF Writes
<1> QED
  BY <1>1, <1>6, <1>7 DEF PayersKept

(* The total of the principals of some lends.                               *)
SumPrincipals(lends, T) == MapThenSumSet(LAMBDA l : lends[l].principal, T)

LEMMA PrincipalsTotal ==
  ASSUME NEW lends, NEW T, IsFiniteSet(T)
  PROVE  SumPrincipals(lends, T) = SumOver([t \in T |-> lends[t].principal], T)
<1> DEFINE f == [t \in T |-> lends[t].principal]
           G == CHOOSE G : G = [U \in SUBSET T |-> IF U = {} THEN 0
                     ELSE lends[CHOOSE x \in U : TRUE].principal + G[U \ {CHOOSE x \in U : TRUE}]]
<1>1. PICK H : AddsUp(H, f, SUBSET T)
  BY SumsExist
<1>2. ASSUME NEW F
      PROVE  AddsUp(F, f, SUBSET T) <=>
               F = [U \in SUBSET T |-> IF U = {} THEN 0
                     ELSE lends[CHOOSE x \in U : TRUE].principal + F[U \ {CHOOSE x \in U : TRUE}]]
  <2>1. ASSUME NEW U \in SUBSET T, U # {}
        PROVE  f[CHOOSE x \in U : TRUE] = lends[CHOOSE x \in U : TRUE].principal
    <3>1. (CHOOSE x \in U : TRUE) \in T
      BY <2>1
    <3> QED
      BY <3>1
  <2> HIDE DEF f
  <2>2. [U \in SUBSET T |-> IF U = {} THEN 0
                     ELSE lends[CHOOSE x \in U : TRUE].principal + F[U \ {CHOOSE x \in U : TRUE}]]
        = [U \in SUBSET T |-> IF U = {} THEN 0
                     ELSE f[CHOOSE x \in U : TRUE] + F[U \ {CHOOSE x \in U : TRUE}]]
    BY <2>1
  <2> QED
    BY <2>2, Zenon DEF AddsUp
<1>3. H = [U \in SUBSET T |-> IF U = {} THEN 0
                     ELSE lends[CHOOSE x \in U : TRUE].principal + H[U \ {CHOOSE x \in U : TRUE}]]
  BY <1>1, <1>2, Zenon
<1>4. G = [U \in SUBSET T |-> IF U = {} THEN 0
                     ELSE lends[CHOOSE x \in U : TRUE].principal + G[U \ {CHOOSE x \in U : TRUE}]]
  BY <1>3, Zenon
<1>5. SumPrincipals(lends, T) = G[T]
  BY DEF SumPrincipals, MapThenSumSet, MapThenFoldSet
<1> HIDE DEF G
<1>6. AddsUp(G, f, SUBSET T)
  BY <1>2, <1>4, Zenon
<1>7. PICK F : AddsUp(F, f, SUBSET T) /\ SumOver(f, T) = F[T]
  BY TotalIs
<1> HIDE DEF f
<1>8. \A U \in SUBSET T : G[U] = F[U]
  BY <1>6, <1>7, SumsAgree
<1>9. SumOver(f, T) = SumPrincipals(lends, T)
  BY <1>5, <1>7, <1>8
<1> QED
  BY <1>9 DEF f


LEMMA OwedIs ==
  ASSUME NEW b, NEW r, SoundBook(b, r), NEW p
  PROVE  /\ Owed(b, p) = SumPrincipals(b.lends, Lent(b, p)) - SumAmounts(b.rows, Payments(b, p))
         /\ SumPrincipals(b.lends, Lent(b, p)) \in Int /\ SumAmounts(b.rows, Payments(b, p)) \in Int /\ Owed(b, p) \in Int
<1>1. /\ IsFiniteSet(Payments(b, p)) /\ \A t \in Payments(b, p) : b.rows[t].amount \in Nat
      /\ IsFiniteSet(Lent(b, p)) /\ \A l \in Lent(b, p) : b.lends[l].principal \in Nat
  BY OnesOwn
<1>2. SumAmounts(b.rows, Payments(b, p)) \in Int
  <2>1. \A t \in Payments(b, p) : b.rows[t].amount \in Int
    BY <1>1
  <2> QED
    BY <1>1, <2>1, AmountsInt
<1>3. PICK T, f : T = Lent(b, p) /\ f = [l \in T |-> b.lends[l].principal]
  OBVIOUS
<1>4. SumPrincipals(b.lends, T) = SumOver(f, T)
  BY <1>1, <1>3, PrincipalsTotal
<1>5. IsFiniteSet(T) /\ \A l \in T : f[l] \in Int
  BY <1>1, <1>3
<1>6. SumOver(f, T) \in Int
  BY <1>5, TotalOf DEF Terms
<1>7. SumPrincipals(b.lends, Lent(b, p)) \in Int
  BY <1>3, <1>4, <1>6
<1>8. Owed(b, p) = SumPrincipals(b.lends, Lent(b, p)) - SumAmounts(b.rows, Payments(b, p))
  BY DEF Owed, SumPrincipals, SumOf, SumAmounts
<1> QED
  BY <1>2, <1>7, <1>8

-----------------------------------------------------------------------------
LEMMA AskedKept ==
  ASSUME LendsInv, PayersKept(book, book'),
         pending' = pending \/ \E e \in Editors : pending' = [pending EXCEPT ![e] = Idle]
  PROVE  Asked'
<1>1. Idle \in PendingSet /\ Idle.kind = "idle"
  BY DEF Idle, PendingSet
<1>2. /\ pending \in [Editors -> PendingSet]
      /\ \A e \in Editors : pending[e].kind = "adjust" /\ book.settled[pending[e].row] # None
           => book.settled[pending[e].row].who = pending[e].who
  BY DEF LendsInv, Asked
<1>3. pending' \in [Editors -> PendingSet] /\ \A e \in Editors : pending'[e] = Idle \/ pending'[e] = pending[e]
  BY <1>1, <1>2
<1>4. ASSUME NEW e \in Editors, pending'[e].kind = "adjust", book'.settled[pending'[e].row] # None
      PROVE  book'.settled[pending'[e].row].who = pending'[e].who
  <2>1. pending'[e] = pending[e] /\ pending[e].kind = "adjust"
    BY <1>1, <1>3, <1>4
  <2>2. pending[e].row \in Adjustments
    BY <1>2, <2>1, PendingIs
  <2> QED
    BY <1>2, <1>4, <2>1, <2>2 DEF PayersKept
<1> QED
  BY <1>3, <1>4 DEF Asked

LEMMA OpensKeeps ==
  ASSUME LendsInv, NEW e \in Editors, NEW what \in PendingSet, Opens(e, what),
         what.kind = "adjust" /\ book.settled[what.row] # None => book.settled[what.row].who = what.who
  PROVE  LendsInv'
<1>1. /\ pending \in [Editors -> PendingSet]
      /\ \A d \in Editors : pending[d].kind = "adjust" /\ book.settled[pending[d].row] # None
           => book.settled[pending[d].row].who = pending[d].who
      /\ Good(book, raced) /\ raced \subseteq {Bill, Credit}
  BY DEF LendsInv, Asked
<1>2. pending' = [pending EXCEPT ![e] = what] /\ book' = book /\ raced' = raced
  BY DEF Opens
<1>3. pending' \in [Editors -> PendingSet] /\ \A d \in Editors : pending'[d] = what \/ pending'[d] = pending[d]
  BY <1>1, <1>2
<1>4. Asked'
  BY <1>1, <1>2, <1>3 DEF Asked
<1> QED
  BY <1>1, <1>2, <1>4 DEF LendsInv

LEMMA PinsAre ==
  ASSUME LendsInv, NEW p \in People
  PROVE  Pins(p) \subseteq LendIds \cup {Overall}
BY DEF Pins, Lent

LEMMA ReadsKeep ==
  ASSUME LendsInv, NEW e \in Editors,
         ReadBill(e) \/ ReadPin(e) \/ ReadSettlement(e) \/ ReadOwed(e) \/ ReadRoom(e) \/ ReadTransaction(e)
  PROVE  LendsInv'
<1>1. PICK b, r : b = book /\ r = raced
  OBVIOUS
<1>2. SoundBook(b, r) /\ Sound(b.rows, b.lends, b.settled, r)
  BY <1>1 DEF LendsInv, Good, SoundBook
<1>3. /\ b.settled \in [Slots -> {None} \cup PaySet] /\ b.rows \in [Slots -> {None} \cup RowSet]
      /\ \A t \in Slots : b.settled[t] # None => b.settled[t].who \in People /\ b.rows[t] \in RowSet
  BY <1>2 DEF Sound, Kinds, PaidRows, PaySet
<1>4. CASE ReadBill(e)
  <2>1. PICK what : what = [kind |-> "mark", split |-> Cuts(b) # {}]
    OBVIOUS
  <2>2. what \in PendingSet /\ what.kind # "adjust"
    BY <2>1 DEF PendingSet
  <2>3. Opens(e, what)
    BY <1>1, <1>4, <2>1 DEF ReadBill
  <2> QED
    BY <2>2, <2>3, OpensKeeps
<1>5. CASE ReadPin(e)
  <2>1. PICK p \in People : \E pin \in Pins(p) : Opens(e, [kind |-> "settle", who |-> p, pin |-> pin])
    BY <1>5 DEF ReadPin
  <2>2. PICK pin \in LendIds \cup {Overall} : Opens(e, [kind |-> "settle", who |-> p, pin |-> pin])
    BY <2>1, PinsAre
  <2>3. PICK what : what = [kind |-> "settle", who |-> p, pin |-> pin]
    OBVIOUS
  <2>4. what \in PendingSet /\ what.kind # "adjust"
    BY <2>3 DEF PendingSet
  <2> QED
    BY <2>2, <2>3, <2>4, OpensKeeps
<1>6. CASE ReadSettlement(e)
  <2>1. PICK t \in Slots : /\ b.settled[t] # None
                           /\ \E pin \in Pins(b.settled[t].who) :
                                Opens(e, [kind |-> "repin", row |-> t, who |-> b.settled[t].who, pin |-> pin])
    BY <1>1, <1>6 DEF ReadSettlement
  <2>2. b.settled[t].who \in People
    BY <1>3, <2>1
  <2>3. PICK pin \in LendIds \cup {Overall} : Opens(e, [kind |-> "repin", row |-> t, who |-> b.settled[t].who, pin |-> pin])
    BY <2>1, <2>2, PinsAre
  <2>4. PICK what : what = [kind |-> "repin", row |-> t, who |-> b.settled[t].who, pin |-> pin]
    OBVIOUS
  <2>5. what \in PendingSet /\ what.kind # "adjust"
    BY <2>2, <2>4 DEF PendingSet
  <2> QED
    BY <2>3, <2>4, <2>5, OpensKeeps
<1>7. CASE ReadOwed(e)
  <2>1. PICK p \in People : \E pin \in Pins(p) :
          Opens(e, [kind |-> "forgive", who |-> p, owed |-> Owed(b, p), pin |-> pin])
    BY <1>1, <1>7 DEF ReadOwed
  <2>2. PICK pin \in LendIds \cup {Overall} : Opens(e, [kind |-> "forgive", who |-> p, owed |-> Owed(b, p), pin |-> pin])
    BY <2>1, PinsAre
  <2>3. PICK what : what = [kind |-> "forgive", who |-> p, owed |-> Owed(b, p), pin |-> pin]
    OBVIOUS
  <2>4. Owed(b, p) \in Int
    BY <1>2, OwedIs
  <2>5. what \in PendingSet /\ what.kind # "adjust"
    BY <2>3, <2>4 DEF PendingSet
  <2> QED
    BY <2>2, <2>3, <2>5, OpensKeeps
<1>8. CASE ReadRoom(e)
  <2>1. PICK t \in Adjustments : /\ b.settled[t] # None
          /\ Opens(e, [kind |-> "adjust", row |-> t, who |-> b.settled[t].who, owed |-> Owed(b, b.settled[t].who) + b.rows[t].amount])
    BY <1>1, <1>8 DEF ReadRoom
  <2>2. PICK p, owed : p = b.settled[t].who /\ owed = Owed(b, p) + b.rows[t].amount
    OBVIOUS
  <2>3. t \in Slots /\ p \in People /\ b.rows[t].amount \in Nat
    BY <1>3, <2>1, <2>2, SlotFacts DEF RowSet
  <2>4. owed \in Int
    <3>1. PICK m \in Int, n \in Int : m = Owed(b, p) /\ n = b.rows[t].amount
      BY <1>2, <2>3, OwedIs
    <3> QED
      BY <2>2, <3>1
  <2>5. PICK what : what = [kind |-> "adjust", row |-> t, who |-> p, owed |-> owed]
    OBVIOUS
  <2>6. what \in PendingSet /\ what.row = t /\ what.who = p
    BY <2>3, <2>4, <2>5 DEF PendingSet
  <2>7. Opens(e, what)
    BY <2>1, <2>2, <2>5
  <2>8. book.settled[what.row].who = what.who
    BY <1>1, <2>2, <2>6
  <2> QED
    BY <2>6, <2>7, <2>8, OpensKeeps
<1>9. CASE ReadTransaction(e)
  <2>1. PICK t \in {Bill, Credit}, tool \in BOOLEAN :
          /\ b.rows[t].type \in Plain
          /\ Opens(e, [kind |-> "edit", row |-> t, type |-> b.rows[t].type, tool |-> tool,
                       split |-> t = Bill /\ Cuts(b) # {}])
    BY <1>1, <1>9 DEF ReadTransaction
  <2>2. PICK what : what = [kind |-> "edit", row |-> t, type |-> b.rows[t].type, tool |-> tool,
                            split |-> t = Bill /\ Cuts(b) # {}]
    OBVIOUS
  <2>3. what \in PendingSet /\ what.kind # "adjust"
    BY <2>1, <2>2 DEF PendingSet
  <2> QED
    BY <2>1, <2>2, <2>3, OpensKeeps
<1> QED
  BY <1>4, <1>5, <1>6, <1>7, <1>8, <1>9

\* Another row of the bill, of the share's cut, another lend: the same day.
Looks(b, c, l, bill, row, lend) ==
  /\ c = [b EXCEPT !.rows[Bill] = bill, !.rows[Cut(l)] = row, !.lends[l] = lend]
  /\ bill.day = b.rows[Bill].day

(* What sharing leaves alone.                                               *)
LEMMA SharedLooks ==
  ASSUME NEW b, NEW r, Tabled(b, r), NEW l \in Shares, b.lends[l] # None, NEW share, NEW c, c = Shared(b, l, share)
  PROVE  /\ c.rows[Bill].day = b.rows[Bill].day
         /\ \A t \in Slots : t # Bill /\ t # Cut(l) => c.rows[t] = b.rows[t]
         /\ \A k \in LendIds : k # l => c.lends[k] = b.lends[k]
<1>1. /\ Bill \in Slots /\ Cut(l) \in Slots /\ Cut(l) # Bill /\ l \in LendIds
      /\ IsBook(b) /\ b.rows \in [Slots -> {None} \cup RowSet] /\ b.lends \in [LendIds -> {None} \cup LendSet] /\ b.rows[Bill] \in RowSet
  <2>1. Sound(b.rows, b.lends, b.settled, r) /\ IsBook(b)
    BY DEF Tabled, SoundBook
  <2>2. b.rows[Bill] \in RowSet
    BY <2>1, OneBill
  <2>3. b.rows \in [Slots -> {None} \cup RowSet] /\ b.lends \in [LendIds -> {None} \cup LendSet]
    BY <2>1 DEF Sound, Kinds
  <2> QED
    BY <2>1, <2>2, <2>3, SlotFacts
<1>2. ASSUME NEW bill, NEW row, NEW lend, Looks(b, c, l, bill, row, lend)
      PROVE  /\ c.rows[Bill].day = b.rows[Bill].day
             /\ \A t \in Slots : t # Bill /\ t # Cut(l) => c.rows[t] = b.rows[t]
             /\ \A k \in LendIds : k # l => c.lends[k] = b.lends[k]
  <2>1. c.rows = [b.rows EXCEPT ![Bill] = bill, ![Cut(l)] = row] /\ c.lends = [b.lends EXCEPT ![l] = lend] /\ bill.day = b.rows[Bill].day
    BY <1>1, <1>2 DEF IsBook, Looks
  <2> QED
    BY <1>1, <2>1
<1>3. CASE c = Moved(b, l, share)
  <2>1. PICK rest : rest = Total(b, l) - share
    OBVIOUS
  <2>2. PICK bill, row, lend :
          /\ bill = [b.rows[Bill] EXCEPT !.type = IF b.lends[l].txn = Bill THEN "expense" ELSE b.rows[Bill].type,
                                         !.amount = rest]
          /\ row = IF b.lends[l].txn = Bill THEN [type |-> "lend", amount |-> share, day |-> b.rows[Bill].day]
                   ELSE [b.rows[Cut(l)] EXCEPT !.amount = share]
          /\ lend = [b.lends[l] EXCEPT !.txn = Cut(l), !.principal = share]
    OBVIOUS
  <2>3. c = [b EXCEPT !.rows[Bill] = bill, !.rows[Cut(l)] = IF b.lends[l].txn = Bill
                             THEN [type |-> "lend", amount |-> share, day |-> b.rows[Bill].day]
                             ELSE [@ EXCEPT !.amount = share], !.lends[l] = lend]
    BY <1>3, <2>1, <2>2 DEF Moved
  <2>4. PICK other : c = [b EXCEPT !.rows[Bill] = bill, !.rows[Cut(l)] = other, !.lends[l] = lend]
    BY <2>3
  <2>5. bill.day = b.rows[Bill].day
    BY <1>1, <2>2 DEF RowSet
  <2>6. Looks(b, c, l, bill, other, lend)
    BY <2>4, <2>5 DEF Looks
  <2> QED
    BY <1>2, <2>6
<1>4. CASE c = Whole(b, l)
  <2>1. PICK whole : whole = Total(b, l)
    OBVIOUS
  <2>2. PICK bill, row, lend :
          /\ bill = [b.rows[Bill] EXCEPT !.type = "lend", !.amount = whole]
          /\ lend = [b.lends[l] EXCEPT !.txn = Bill, !.principal = whole]
          /\ row = None
    OBVIOUS
  <2>3. c = [b EXCEPT !.rows[Bill] = bill, !.rows[Cut(l)] = row, !.lends[l] = lend]
    BY <1>4, <2>1, <2>2 DEF Whole
  <2>4. bill.day = b.rows[Bill].day
    BY <1>1, <2>2 DEF RowSet
  <2>5. Looks(b, c, l, bill, row, lend)
    BY <2>3, <2>4 DEF Looks
  <2> QED
    BY <1>2, <2>5
<1>5. CASE c = b
  BY <1>5
<1> QED
  BY <1>3, <1>4, <1>5 DEF Shared

(* Tables without a payment are good as they are.                           *)
LEMMA UnpaidGood ==
  ASSUME NEW b, NEW r, Tabled(b, r), \A t \in Slots : b.settled[t] = None
  PROVE  Good(b, r)
<1>1. \A t \in Slots : CoverFits(b, t)
  BY DEF Tabled, CoverFits
<1>2. ASSUME NEW p \in People
      PROVE  Current(b, p) /\ After(b, p, r)
  <2>1. Payments(b, p) = {}
    BY DEF Payments
  <2> QED
    BY <2>1 DEF Current, After
<1> QED
  BY <1>1, <1>2 DEF Tabled, Good, PaidUp

LEMMA ReceivableGood ==
  ASSUME NEW b \in Receivable
  PROVE  /\ Good(b, {}) /\ b.rows[Bill] # None /\ b.rows[Bill].type = "expense" /\ b.rows[Bill].day = 1 /\ b.rows[Bill].amount = Price
         /\ b.rows[Credit] # None /\ b.rows[Credit].type = "income" /\ b.rows[Credit].day \in Days
         /\ \A l \in LendIds : b.lends[l] = None
         /\ \A t \in Slots : b.settled[t] = None
         /\ Cuts(b) = {}
<1>1. PICK amount \in 1..Price, day \in Days : b = Receipts(amount, day)
  BY DEF Receivable
<1>2. /\ b.rows = [t \in Slots |-> CASE t = Bill -> [type |-> "expense", amount |-> Price, day |-> 1]
                               [] t = Credit -> [type |-> "income", amount |-> amount, day |-> day]
                               [] OTHER -> None]
      /\ b.lends = [l \in LendIds |-> None] /\ b.settled = [t \in Slots |-> None] /\ b.covers = [t \in Slots |-> None]
      /\ IsBook(b)
  BY <1>1 DEF Receipts, NoRows, IsBook
<1>3. /\ {Bill, CashOut, Credit} \cup Adjustments \subseteq Slots /\ Bill # Credit /\ CashOut # Bill /\ CashOut # Credit
      /\ Bill \notin Adjustments /\ Credit \notin Adjustments /\ CashLend \in LendIds /\ Shares \subseteq LendIds
      /\ \A l \in Shares : Cut(l) \in Slots /\ Cut(l) # Bill /\ Cut(l) # Credit
  BY SlotFacts
<1>4. PICK bill, credit : /\ bill = [type |-> "expense", amount |-> Price, day |-> 1]
                          /\ credit = [type |-> "income", amount |-> amount, day |-> day]
  OBVIOUS
<1>5. bill \in RowSet /\ credit \in RowSet /\ bill # None /\ credit # None
  <2>1. Price \in Nat /\ amount \in Nat /\ day \in Nat
    BY LendsAssumption, SlotFacts
  <2>2. bill \in RowSet /\ credit \in RowSet
    BY <1>4, <2>1 DEF RowSet, RowTypes, Plain
  <2> QED
    BY <2>2, NoneIsNoRow
<1>6. b.rows[Bill] = bill /\ b.rows[Credit] = credit /\ \A t \in Slots : t # Bill /\ t # Credit => b.rows[t] = None
  BY <1>2, <1>3, <1>4
<1>7. \A t \in Slots : b.rows[t] \in {None} \cup RowSet
  BY <1>5, <1>6
<1>8. Kinds(b.rows, b.lends, b.settled)
  BY <1>2, <1>7 DEF Kinds
<1>9. ShareRows(b.rows, b.lends) /\ CashRow(b.rows, b.lends)
  BY <1>2, <1>3, <1>6 DEF ShareRows, CashRow, On
<1>10. PaidRows(b.rows, b.lends, b.settled, {})
  BY <1>2, <1>3, <1>4, <1>6 DEF PaidRows, Plain
<1>11. BillRow(b.rows, b.lends, {})
  BY <1>2, <1>3, <1>4, <1>6 DEF BillRow, On
<1>12. Tabled(b, {})
  BY <1>2, <1>8, <1>9, <1>10, <1>11 DEF Tabled, SoundBook, Sound
<1>13. Good(b, {})
  BY <1>2, <1>12, UnpaidGood
<1>14. Cuts(b) = {}
  <2>1. ~ (Bill > 5) /\ ~ (Credit > 5)
    BY DEF Bill, Credit
  <2> QED
    BY <1>6, <2>1 DEF Cuts
<1> QED
  BY <1>2, <1>4, <1>5, <1>6, <1>13, <1>14

\* The bill marked as one person's lend, then shared.
LendedFrom(b, m, c) ==
  \E p, share, e : /\ Marks(b, m, 1, p, e, e) /\ Tabled(m, e) /\ m.lends[1] # None
                   /\ CanShare(m, 1, share) /\ c = Shared(m, 1, share)

LEMMA LendingGood ==
  ASSUME NEW c \in Lending
  PROVE  /\ Good(c, {}) /\ c.rows[Credit] # None /\ c.rows[Credit].type = "income" /\ c.rows[Credit].day \in Days
         /\ 1 \in Shares /\ c.lends[1] # None /\ c.lends[1].who \in People /\ c.lends[1].day = 1
         /\ \A k \in LendIds : k # 1 => c.lends[k] = None
         /\ \A t \in Slots : c.settled[t] = None
         /\ \E b \in Receivable : \E m : LendedFrom(b, m, c)
<1>1. PICK b \in Receivable, p \in People, share \in 1..Price : c = Shared(Marked(b, p), 1, share)
  BY DEF Lending
<1>2. /\ Good(b, {}) /\ b.rows[Bill] # None /\ b.rows[Bill].type = "expense" /\ b.rows[Bill].day = 1 /\ b.rows[Bill].amount = Price
      /\ b.rows[Credit] # None /\ b.rows[Credit].type = "income" /\ b.rows[Credit].day \in Days
      /\ \A l \in LendIds : b.lends[l] = None
      /\ \A t \in Slots : b.settled[t] = None
      /\ Cuts(b) = {}
  BY ReceivableGood
<1>3. PICK e, l, m : e = {} /\ l = FreeShare(b) /\ m = Marked(b, p)
  OBVIOUS
<1>4. Tabled(b, e)
  BY <1>2, <1>3, TouchedTabled
<1>5. 1 \in Shares /\ l = 1
  <2>1. PICK n \in Nat : n = Cardinality(People)
    BY LendsAssumption, FS_CardinalityType
  <2>2. n # 0
    BY <2>1, LendsAssumption, FS_EmptySet
  <2>3. 1 \in Shares
    BY <2>1, <2>2 DEF Shares
  <2>4. l = Min(Shares)
    <3>1. {k \in Shares : b.lends[k] = None} = Shares
      BY <1>2, SlotFacts
    <3> QED
      BY <1>3, <3>1 DEF FreeShare
  <2>5. Min(Shares) \in Shares /\ Min(Shares) <= 1
    BY <2>3, MinIs, SlotFacts
  <2> QED
    BY <2>1, <2>3, <2>4, <2>5 DEF Shares
<1>6. Marks(b, m, l, p, e, e)
  BY <1>2, <1>3, <1>4, <1>5, SlotFacts DEF Marks
<1>7. Touches(b, m, {p}, e, e)
  BY <1>6, MarkedTouches
<1>8. Holds(m, l, p) /\ l \in Shares /\ m.rows[Bill].amount = Price
  BY <1>2, <1>6, <1>7, MarkedTouches
<1>9. Tabled(m, e)
  BY <1>7, TouchedTabled
<1>10. m.lends[l] # None /\ m.lends[l].who = p /\ m.lends[l].txn = Bill
  BY <1>8 DEF Holds
<1>11. CanShare(m, l, share)
  <2>1. Total(m, l) = Price
    BY <1>8, <1>9, <1>10, TotalIsNat
  <2> QED
    BY <1>8, <1>10, <2>1 DEF CanShare
<1>12. c = Shared(m, l, share)
  BY <1>1, <1>3, <1>5
<1>13. Touches(m, c, {m.lends[l].who}, e, e) /\ c.lends[l] # None /\ c.lends[l].who = m.lends[l].who
  BY <1>8, <1>9, <1>10, <1>11, <1>12, SharedTouches
<1>14. Tabled(c, e)
  BY <1>13, TouchedTabled
<1>15. c.settled = b.settled
  BY <1>3, <1>4, <1>9, <1>12, SettlementsKept
<1>16. Good(c, e)
  BY <1>2, <1>14, <1>15, UnpaidGood
<1>17. /\ m.rows[Bill].day = 1 /\ m.rows[Credit] = b.rows[Credit]
       /\ \A k \in LendIds : k # l => m.lends[k] = None
  <2>1. PICK lend : m = [b EXCEPT !.rows[Bill].type = "lend", !.lends[l] = lend]
    BY <1>3 DEF Marked
  <2>2. IsBook(b) /\ b.rows \in [Slots -> {None} \cup RowSet] /\ b.lends \in [LendIds -> {None} \cup LendSet]
    BY <1>4 DEF Tabled, SoundBook, Sound, Kinds
  <2>3. m.rows = [b.rows EXCEPT ![Bill] = [b.rows[Bill] EXCEPT !.type = "lend"]] /\ m.lends = [b.lends EXCEPT ![l] = lend]
    BY <2>1, <2>2 DEF IsBook
  <2>4. m.rows[Bill] = [b.rows[Bill] EXCEPT !.type = "lend"] /\ b.rows[Bill] \in RowSet /\ m.rows[Credit] = b.rows[Credit]
    BY <1>2, <2>2, <2>3, SlotFacts
  <2>5. m.rows[Bill].day = 1
    BY <1>2, <2>4 DEF RowSet
  <2> QED
    BY <1>2, <2>2, <2>3, <2>4, <2>5
<1>18. /\ c.rows[Bill].day = 1 /\ c.rows[Credit] = b.rows[Credit]
       /\ \A k \in LendIds : k # l => c.lends[k] = None
  <2>1. /\ c.rows[Bill].day = m.rows[Bill].day
        /\ \A t \in Slots : t # Bill /\ t # Cut(l) => c.rows[t] = m.rows[t]
        /\ \A k \in LendIds : k # l => c.lends[k] = m.lends[k]
    BY <1>8, <1>9, <1>10, <1>12, SharedLooks
  <2>2. Credit \in Slots /\ Credit # Bill /\ Credit # Cut(l)
    BY <1>8, SlotFacts
  <2> QED
    BY <1>17, <2>1, <2>2
<1>19. c.lends[l].day = 1
  <2>1. Sound(c.rows, c.lends, c.settled, {})
    BY <1>3, <1>14 DEF Tabled, SoundBook
  <2>2. \/ c.rows[Bill] = LendRow(c.lends[l])
        \/ c.lends[l].day = c.rows[Bill].day
    BY <1>8, <1>13, <2>1, OneBill
  <2> QED
    BY <1>18, <2>2 DEF LendRow
<1>20. LendedFrom(b, m, c)
  BY <1>5, <1>6, <1>9, <1>10, <1>11, <1>12 DEF LendedFrom
<1> QED
  BY <1>2, <1>3, <1>5, <1>8, <1>10, <1>13, <1>15, <1>16, <1>18, <1>19, <1>20

LEMMA RepaidGood ==
  ASSUME NEW d \in Repaid
  PROVE  Good(d, {})
<1>1. PICK b \in Lending, pin \in {1, Overall} : d = Rebalanced(Settled(b, Credit, b.lends[1].who, pin), People)
  BY DEF Repaid
<1>2. /\ Good(b, {}) /\ b.rows[Credit] # None /\ b.rows[Credit].type = "income" /\ b.rows[Credit].day \in Days
      /\ 1 \in Shares /\ b.lends[1] # None /\ b.lends[1].who \in People /\ b.lends[1].day = 1
      /\ \A k \in LendIds : k # 1 => b.lends[k] = None
      /\ \A t \in Slots : b.settled[t] = None
  BY LendingGood
<1>3. PICK p, c : p = b.lends[1].who /\ c = Settled(b, Credit, p, pin)
  OBVIOUS
<1>4. 1 \in LendIds /\ Credit \in Slots /\ p \in People /\ pin \in LendIds \cup {Overall} /\ Overall # 1
  BY <1>2, <1>3, SlotFacts DEF Overall
<1>5. Touches(b, c, {p}, {}, {})
  <2>1. pin # Overall => b.lends[pin] # None
    BY <1>2
  <2>2. Credit \in {Bill, Credit} /\ b.settled[Credit] = None
    BY <1>2, <1>4
  <2>3. PICK e : e = {}
    OBVIOUS
  <2>4. Touches(b, c, {p}, e, e)
    BY <1>2, <1>3, <1>4, <2>1, <2>2, <2>3, SettledTouches
  <2> QED
    BY <2>3, <2>4
<1>6. Touches(b, c, People, {}, {})
  <2>1. {p} \subseteq People
    BY <1>4
  <2> QED
    BY <1>5, <2>1, TouchesMore
<1>7. /\ c.rows = [b.rows EXCEPT ![Credit].type = "lend_repayment"] /\ c.lends = b.lends
      /\ c.settled = [b.settled EXCEPT ![Credit] = [who |-> p, pin |-> pin]]
  BY <1>2, <1>3 DEF Good, IsBook, Settled
<1>8. Kinds(b.rows, b.lends, b.settled) /\ b.rows[Credit] \in RowSet
  <2>1. Kinds(b.rows, b.lends, b.settled)
    BY <1>2 DEF Good, SoundBook, Sound
  <2> QED
    BY <1>2, <1>4, <2>1 DEF Kinds
<1>9. c.rows[Credit].day \in Days
  BY <1>2, <1>4, <1>7, <1>8 DEF Kinds, RowSet
<1>10. \A t \in Slots : t # Credit => c.settled[t] = None
  BY <1>2, <1>7, <1>8 DEF Kinds
<1>11. c.settled[Credit].pin = pin
  BY <1>4, <1>7, <1>8 DEF Kinds
<1>12. ASSUME NEW q \in People
       PROVE  InOrder(c, q)
  <2> SUFFICES ASSUME Lent(c, q) # {}, NEW t \in Payments(c, q)
               PROVE  c.rows[t].day >= IF c.settled[t].pin \in Lent(c, q) THEN c.lends[c.settled[t].pin].day
                                       ELSE Min({c.lends[l].day : l \in Lent(c, q)})
    BY DEF InOrder
  <2>1. t = Credit
    BY <1>10 DEF Payments
  <2>2. \A l \in Lent(c, q) : l = 1
    BY <1>2, <1>7 DEF Lent
  <2>3. \A l \in Lent(c, q) : c.lends[l].day = 1
    BY <1>2, <1>7, <2>2
  <2>4. PICK days : days = {c.lends[l].day : l \in Lent(c, q)}
    OBVIOUS
  <2>5. days = {1}
    BY <2>2, <2>3, <2>4
  <2>6. Min(days) = 1
    <3>1. days # {} /\ days \in SUBSET Nat
      BY <2>5
    <3>2. Min(days) \in days
      BY <3>1, MinIs
    <3> QED
      BY <2>5, <3>2
  <2>7. c.rows[t].day >= 1
    BY <1>9, <2>1 DEF Days
  <2> QED
    BY <2>3, <2>4, <2>6, <2>7
<1>13. PICK P, e : P = People /\ e = {}
  OBVIOUS
<1>14. Good(Rebalanced(c, P), e)
  BY <1>2, <1>6, <1>12, <1>13, RebalancedGood
<1> QED
  BY <1>1, <1>3, <1>13, <1>14

LEMMA LendsStarts ==
  LendsInit => LendsInv
<1> SUFFICES ASSUME LendsInit
             PROVE  LendsInv
  OBVIOUS
<1>1. Good(book, {})
  BY ReceivableGood, LendingGood, RepaidGood DEF LendsInit
<1>2. Idle \in PendingSet /\ Idle.kind # "adjust"
  BY DEF Idle, PendingSet
<1>3. Asked
  BY <1>2 DEF LendsInit, Asked
<1> QED
  BY <1>1, <1>3 DEF LendsInit, LendsInv

\* Another step of the next-state relation, none of them the user's.
LEMMA ForgiveAsked ==
  ASSUME LendsInv, NEW e \in Editors, Forgive(e)
  PROVE  LendsInv'
<1>1. PICK u \in Adjustments \ Awaited : \A t \in Adjustments : t # u => book'.settled[t] = book.settled[t]
  BY ForgiveKeeps
<1>2. Good(book', raced') /\ raced' = raced /\ raced \subseteq {Bill, Credit}
  BY ForgiveKeeps DEF Forgive, LendsInv
<1>3. /\ pending \in [Editors -> PendingSet]
      /\ \A d \in Editors : pending[d].kind = "adjust" /\ book.settled[pending[d].row] # None
           => book.settled[pending[d].row].who = pending[d].who
  BY DEF LendsInv, Asked
<1>4. Idle \in PendingSet /\ Idle.kind = "idle"
  BY DEF Idle, PendingSet
<1>5. pending' \in [Editors -> PendingSet] /\ \A d \in Editors : pending'[d] = Idle \/ pending'[d] = pending[d]
  BY <1>3, <1>4 DEF Forgive, Ends
<1>6. ASSUME NEW d \in Editors, pending'[d].kind = "adjust", book'.settled[pending'[d].row] # None
      PROVE  book'.settled[pending'[d].row].who = pending'[d].who
  <2>1. pending'[d] = pending[d] /\ pending[d].kind = "adjust"
    BY <1>4, <1>5, <1>6
  <2>2. pending[d].row \in Adjustments /\ pending[d].row \in Awaited
    BY <1>3, <2>1, PendingIs DEF Awaited
  <2>3. book'.settled[pending[d].row] = book.settled[pending[d].row]
    BY <1>1, <2>2
  <2> QED
    BY <1>3, <1>6, <2>1, <2>3
<1>7. Asked'
  BY <1>5, <1>6 DEF Asked
<1> QED
  BY <1>2, <1>7 DEF LendsInv

LEMMA LendsStep ==
  LendsInv /\ [LendsNext]_lendVars => LendsInv'
<1> SUFFICES ASSUME LendsInv, [LendsNext]_lendVars
             PROVE  LendsInv'
  OBVIOUS
<1>1. ASSUME Good(book', raced'), PayersKept(book, book'), raced' \subseteq {Bill, Credit},
             pending' = pending \/ \E e \in Editors : pending' = [pending EXCEPT ![e] = Idle]
      PROVE  LendsInv'
  BY <1>1, AskedKept DEF LendsInv
<1>2. raced \subseteq {Bill, Credit} /\ Good(book, raced)
  BY DEF LendsInv
<1>3. CASE SplitBill \/ CreateLend \/ UpdateLend \/ DeleteLend \/ Unsettle \/ DeleteTransaction
  <2>1. pending' = pending /\ raced' = raced
    BY <1>3 DEF SplitBill, CreateLend, UpdateLend, DeleteLend, Unsettle, DeleteTransaction, AtOnce
  <2>2. Good(book', raced') /\ PayersKept(book, book')
    BY <1>3, SplitBillKeeps, CreateLendKeeps, UpdateLendKeeps, DeleteLendKeeps, UnsettleKeeps, DeleteTransactionKeeps
  <2> QED
    BY <1>1, <1>2, <2>1, <2>2
<1>4. ASSUME NEW e \in Editors,
             ReadBill(e) \/ ReadPin(e) \/ ReadSettlement(e) \/ ReadOwed(e) \/ ReadRoom(e) \/ ReadTransaction(e)
      PROVE  LendsInv'
  BY <1>4, ReadsKeep
<1>5. ASSUME NEW e \in Editors, MarkPaidFor(e) \/ SettleWith(e) \/ SetSettlementLend(e) \/ EditAdjustment(e) \/ WriteTransaction(e)
      PROVE  LendsInv'
  <2>1. pending' = [pending EXCEPT ![e] = Idle]
    BY <1>5 DEF MarkPaidFor, SettleWith, SetSettlementLend, EditAdjustment, WriteTransaction, Ends
  <2>2. Good(book', raced') /\ PayersKept(book, book')
    BY <1>5, MarkPaidForKeeps, SettleWithKeeps, SetSettlementLendKeeps, EditAdjustmentKeeps, WriteTransactionKeeps
  <2>3. CASE WriteTransaction(e)
    BY <1>1, <2>1, <2>2, <2>3, WriteTransactionKeeps
  <2>4. CASE ~ WriteTransaction(e)
    <3>1. raced' \subseteq raced \cup {Bill}
      BY <1>5, <2>4 DEF MarkPaidFor, SettleWith, SetSettlementLend, EditAdjustment
    <3> QED
      BY <1>1, <1>2, <2>1, <2>2, <3>1
  <2> QED
    BY <2>3, <2>4
<1>6. ASSUME NEW e \in Editors, Rollback(e)
      PROVE  LendsInv'
  <2>1. book' = book /\ raced' = raced /\ pending' = [pending EXCEPT ![e] = Idle]
    BY <1>6 DEF Rollback, Ends
  <2>2. PayersKept(book, book')
    BY <2>1 DEF PayersKept
  <2> QED
    BY <1>1, <1>2, <2>1, <2>2
<1>7. CASE UNCHANGED lendVars
  <2>1. book' = book /\ raced' = raced /\ pending' = pending
    BY <1>7 DEF lendVars
  <2>2. PayersKept(book, book')
    BY <2>1 DEF PayersKept
  <2> QED
    BY <1>1, <1>2, <2>1, <2>2
<1>8. CASE LendsNext
  <2>1. ASSUME NEW e \in Editors, MarkPaidFor(e) \/ SettleWith(e) \/ SetSettlementLend(e) \/ Forgive(e)
                                  \/ EditAdjustment(e) \/ WriteTransaction(e) \/ Rollback(e)
        PROVE  LendsInv'
    BY <1>5, <1>6, <2>1, ForgiveAsked
  <2> QED
    BY <1>3, <1>4, <1>8, <2>1 DEF LendsNext
<1> QED
  BY <1>7, <1>8

LEMMA LendsAlways == LendsSpec => []LendsInv
  BY LendsStarts, LendsStep, PTL DEF LendsSpec

LEMMA AmountsApart ==
  ASSUME NEW rows, NEW T, NEW t \in T, IsFiniteSet(T), \A u \in T : rows[u].amount \in Int
  PROVE  SumAmounts(rows, T) = SumAmounts(rows, T \ {t}) + rows[t].amount /\ SumAmounts(rows, T \ {t}) \in Int
<1>1. PICK P, U : P = {t} /\ U = T \ {t}
  OBVIOUS
<1>2. U \cup P = T /\ U \cap P = {} /\ IsFiniteSet(U \cup P) /\ \A u \in U \cup P : rows[u].amount \in Int
  BY <1>1
<1>3. SumAmounts(rows, U \cup P) = SumAmounts(rows, U) + SumAmounts(rows, P) /\ SumAmounts(rows, U) \in Int
  BY <1>2, AmountsJoin
<1>4. SumAmounts(rows, P) = rows[t].amount
  BY <1>1, AmountsOne
<1> QED
  BY <1>1, <1>2, <1>3, <1>4

\* What a person owes changes by what the one payment does.
LEMMA OwedBut ==
  ASSUME NEW b, NEW r, SoundBook(b, r), NEW c, NEW s, SoundBook(c, s), NEW p, c.lends = b.lends,
         NEW t \in Payments(c, p), Payments(c, p) \ {t} = Payments(b, p) \ {t},
         \A u \in Slots : u # t => c.rows[u] = b.rows[u]
  PROVE  /\ t \in Payments(b, p) => Owed(c, p) = Owed(b, p) + b.rows[t].amount - c.rows[t].amount
         /\ t \notin Payments(b, p) => Owed(c, p) = Owed(b, p) - c.rows[t].amount
<1>1. PICK A, B, U : A = Payments(b, p) /\ B = Payments(c, p) /\ U = Payments(c, p) \ {t}
  OBVIOUS
<1>2. /\ IsFiniteSet(A) /\ IsFiniteSet(B) /\ \A u \in A : b.rows[u].amount \in Nat
      /\ \A u \in B : u \in Slots /\ c.rows[u].amount \in Nat
  BY <1>1, OnesOwn
<1>3. U = A \ {t} /\ U = B \ {t} /\ t \in B /\ IsFiniteSet(U)
  BY <1>1, <1>2, FS_Subset
<1>4. SumAmounts(c.rows, B) = SumAmounts(c.rows, U) + c.rows[t].amount /\ SumAmounts(c.rows, U) \in Int
  <2>1. \A u \in B : c.rows[u].amount \in Int
    BY <1>2
  <2>2. t \in B
    BY <1>3
  <2>3. SumAmounts(c.rows, B) = SumAmounts(c.rows, B \ {t}) + c.rows[t].amount /\ SumAmounts(c.rows, B \ {t}) \in Int
    BY <1>2, <2>1, <2>2, AmountsApart
  <2>4. B \ {t} = U
    BY <1>3
  <2> QED
    BY <2>3, <2>4, Zenon
<1>5. SumAmounts(c.rows, U) = SumAmounts(b.rows, U)
  <2>1. \A u \in U : c.rows[u].amount = b.rows[u].amount
    BY <1>2, <1>3
  <2> QED
    BY <1>3, <2>1, AmountsSame
<1>6. t \in A => SumAmounts(b.rows, A) = SumAmounts(b.rows, U) + b.rows[t].amount
  <2> SUFFICES ASSUME t \in A
               PROVE  SumAmounts(b.rows, A) = SumAmounts(b.rows, U) + b.rows[t].amount
    OBVIOUS
  <2>1. \A u \in A : b.rows[u].amount \in Int
    BY <1>2
  <2>2. SumAmounts(b.rows, A) = SumAmounts(b.rows, A \ {t}) + b.rows[t].amount
    BY <1>2, <2>1, AmountsApart
  <2>3. A \ {t} = U
    BY <1>3
  <2> QED
    BY <2>2, <2>3, Zenon
<1>7. t \notin A => A = U
  BY <1>3
<1>8. Lent(c, p) = Lent(b, p)
  BY DEF Lent
<1>9. PICK lent \in Int : lent = SumPrincipals(b.lends, Lent(b, p))
  BY OwedIs
<1>10. Owed(b, p) = lent - SumAmounts(b.rows, A) /\ Owed(c, p) = lent - SumAmounts(c.rows, B)
  BY <1>1, <1>8, <1>9, OwedIs
<1>11. c.rows[t].amount \in Int /\ (t \in A => b.rows[t].amount \in Int)
  BY <1>2, <1>3
<1>12. t \in A => Owed(c, p) = Owed(b, p) + b.rows[t].amount - c.rows[t].amount
  BY <1>4, <1>5, <1>6, <1>10, <1>11
<1>13. t \notin A => Owed(c, p) = Owed(b, p) - c.rows[t].amount
  BY <1>4, <1>5, <1>7, <1>10, <1>11
<1> QED
  BY <1>1, <1>12, <1>13

LEMMA ForgivesOwed ==
  ASSUME LendsInv, NEW e \in Editors, Forgive(e)
  PROVE  \E amount \in 1..pending[e].owed : Owed(book', pending[e].who) = Owed(book, pending[e].who) - amount
<1>1. PICK b, r, d, w : b = book /\ r = raced /\ d = book' /\ w = pending[e]
  OBVIOUS
<1>2. Good(b, r) /\ IsBook(b) /\ raced' = r /\ Good(d, r) /\ w.owed \in Int
  BY <1>1, ForgiveKeeps, PendingIs DEF LendsInv, Forgive, Good, Asked
<1>3. PICK amount \in 1..w.owed, day \in Days :
      \E t \in Adjustments \ Awaited :
       /\ b.rows[t] = None
       /\ d = Rebalanced([b EXCEPT !.rows[t] = [type |-> "writeoff", amount |-> amount, day |-> day],
                                  !.settled[t] = [who |-> w.who, pin |-> w.pin]], {w.who})
  BY <1>1 DEF Forgive, Commits
<1>4. PICK t \in Adjustments :
        \E row, pay, P :
        /\ row = [type |-> "writeoff", amount |-> amount, day |-> day] /\ pay = [who |-> w.who, pin |-> w.pin]
        /\ b.rows[t] = None
        /\ d = Rebalanced([b EXCEPT !.rows[t] = row, !.settled[t] = pay], P)
  BY <1>3
<1>14. PICK row, pay, P :
        /\ row = [type |-> "writeoff", amount |-> amount, day |-> day] /\ pay = [who |-> w.who, pin |-> w.pin]
        /\ b.rows[t] = None
        /\ d = Rebalanced([b EXCEPT !.rows[t] = row, !.settled[t] = pay], P)
  BY <1>4
<1>5. d.rows = [b.rows EXCEPT ![t] = row] /\ d.lends = b.lends /\ d.settled = [b.settled EXCEPT ![t] = pay]
  BY <1>2, <1>14 DEF Rebalanced, IsBook
<1>6. /\ b.settled[t] = None /\ t \in Slots /\ b.settled \in [Slots -> {None} \cup PaySet] /\ b.rows \in [Slots -> {None} \cup RowSet]
      /\ SoundBook(b, r) /\ SoundBook(d, r)
  BY <1>2, <1>14, SlotFacts DEF Good, SoundBook, Sound, PaidRows, Kinds
<1>7. d.rows[t] = row /\ d.settled[t] = pay /\ \A u \in Slots : u # t => d.rows[u] = b.rows[u] /\ d.settled[u] = b.settled[u]
  BY <1>5, <1>6
<1>8. pay # None
  <2>1. w.who \in People /\ w.pin \in LendIds \cup {Overall}
    BY <1>1, PendingIs DEF LendsInv, Asked, Forgive
  <2>2. pay \in PaySet
    BY <1>14, <2>1 DEF PaySet
  <2> QED
    BY <2>2, NoneIsNoRow
<1>9. t \in Payments(d, w.who) /\ t \notin Payments(b, w.who)
  BY <1>14, <1>6, <1>7, <1>8 DEF Payments
<1>10. Payments(d, w.who) \ {t} = Payments(b, w.who) \ {t}
  BY <1>7 DEF Payments
<1>11. PICK p : p = w.who
  OBVIOUS
<1>12. Owed(d, p) = Owed(b, p) - d.rows[t].amount
  <2>1. \A u \in Slots : u # t => d.rows[u] = b.rows[u]
    BY <1>7
  <2>2. t \in Payments(d, p) /\ t \notin Payments(b, p) /\ Payments(d, p) \ {t} = Payments(b, p) \ {t} /\ d.lends = b.lends
    BY <1>5, <1>9, <1>10, <1>11
  <2> QED
    BY <1>6, <2>1, <2>2, OwedBut
<1>13. d.rows[t].amount = amount
  BY <1>14, <1>7
<1> QED
  BY <1>1, <1>3, <1>11, <1>12, <1>13

LEMMA EditsOwed ==
  ASSUME LendsInv, NEW e \in Editors, EditAdjustment(e)
  PROVE  /\ book.rows[pending[e].row] # None
         /\ \E amount \in Int :
              /\ amount = book.rows[pending[e].row].amount \/ amount \in 1..pending[e].owed
              /\ book.rows[pending[e].row].amount \in Int
              /\ Owed(book', pending[e].who) = Owed(book, pending[e].who) + book.rows[pending[e].row].amount - amount
<1>1. PICK b, r, d, w : b = book /\ r = raced /\ d = book' /\ w = pending[e]
  OBVIOUS
<1>2. Good(b, r) /\ IsBook(b) /\ raced' = r /\ Good(d, r)
  BY <1>1, EditAdjustmentKeeps DEF LendsInv, EditAdjustment, Good
<1>3. /\ w.who \in People /\ w.row \in Adjustments /\ w.owed \in Int
      /\ b.settled[w.row] # None => b.settled[w.row].who = w.who
  BY <1>1, PendingIs DEF LendsInv, Asked, EditAdjustment
<1>4. PICK row, t, P :
        /\ \/ \E a \in 1..w.owed : row = [b.rows[t] EXCEPT !.amount = a]
           \/ \E day \in Days : row = [b.rows[t] EXCEPT !.day = day]
        /\ t = w.row /\ b.rows[t] # None
        /\ d = Rebalanced([b EXCEPT !.rows[t] = row], P)
  BY <1>1 DEF EditAdjustment, Commits
<1>5. d.rows = [b.rows EXCEPT ![t] = row] /\ d.lends = b.lends /\ d.settled = b.settled
  BY <1>2, <1>4 DEF Rebalanced, IsBook
<1>6. /\ b.settled[t] # None /\ b.settled[t].who = w.who /\ t \in Slots /\ b.rows \in [Slots -> {None} \cup RowSet] /\ b.rows[t] \in RowSet
      /\ SoundBook(b, r) /\ SoundBook(d, r)
  BY <1>2, <1>3, <1>4, SlotFacts DEF Good, SoundBook, Sound, PaidRows, Kinds
<1>7. d.rows[t] = row /\ \A u \in Slots : u # t => d.rows[u] = b.rows[u]
  BY <1>5, <1>6
<1>8. PICK p : p = w.who
  OBVIOUS
<1>9. Payments(d, p) = Payments(b, p) /\ t \in Payments(b, p)
  BY <1>5, <1>6, <1>8 DEF Payments
<1>10. Owed(d, p) = Owed(b, p) + b.rows[t].amount - d.rows[t].amount
  <2>1. \A u \in Slots : u # t => d.rows[u] = b.rows[u]
    BY <1>7
  <2>2. t \in Payments(d, p) /\ t \in Payments(b, p) /\ Payments(d, p) \ {t} = Payments(b, p) \ {t} /\ d.lends = b.lends
    BY <1>5, <1>9
  <2> QED
    BY <1>6, <2>1, <2>2, OwedBut
<1>11. b.rows[t].amount \in Nat
  BY <1>6 DEF RowSet
<1>12. row.amount = b.rows[t].amount \/ row.amount \in 1..w.owed
  BY <1>4, <1>6 DEF RowSet
<1>13. PICK amount : amount = row.amount
  OBVIOUS
<1>14. amount \in Int
  BY <1>3, <1>11, <1>12, <1>13
<1>15. /\ b.rows[t] # None /\ b.rows[t].amount \in Int
       /\ amount = b.rows[t].amount \/ amount \in 1..w.owed
       /\ Owed(d, p) = Owed(b, p) + b.rows[t].amount - amount
  <2>1. Owed(d, p) = Owed(b, p) + b.rows[t].amount - amount
    BY <1>7, <1>10, <1>13, Zenon
  <2>2. b.rows[t] # None /\ b.rows[t].amount \in Int
    BY <1>4, <1>11
  <2> QED
    BY <1>12, <1>13, <2>1, <2>2, Zenon
<1>16. t = w.row
  BY <1>4
<1> QED
  BY <1>1, <1>8, <1>14, <1>15, <1>16, Zenon

LEMMA ForgivenStep ==
  ASSUME LendsInv, LendsNext \/ UNCHANGED lendVars, NEW e \in Editors,
         pending[e].kind \in {"forgive", "adjust"}, pending'[e] = Idle
  PROVE  LET p == pending[e].who
             now == Owed(book, p) + (IF pending[e].kind = "adjust" /\ book.rows[pending[e].row] # None
                                     THEN book.rows[pending[e].row].amount ELSE 0)
         IN Owed(book', p) < Owed(book, p) => Owed(book', p) >= 0 \/ now < pending[e].owed
<1> DEFINE p == pending[e].who
           now == Owed(book, p) + (IF pending[e].kind = "adjust" /\ book.rows[pending[e].row] # None
                                   THEN book.rows[pending[e].row].amount ELSE 0)
<1>1. pending \in [Editors -> PendingSet] /\ pending[e].owed \in Int
  BY PendingIs DEF LendsInv, Asked
<1>2. PICK owes \in Int : owes = Owed(book, p)
  <2>1. SoundBook(book, raced)
    BY DEF LendsInv, Good
  <2> QED
    BY <2>1, OwedIs
<1>3. CASE Forgive(e)
  <2>1. PICK amount \in 1..pending[e].owed : Owed(book', p) = Owed(book, p) - amount
    BY <1>3, ForgivesOwed
  <2>2. now = owes + 0
    BY <1>2, <1>3 DEF Forgive
  <2> QED
    BY <1>1, <1>2, <2>1, <2>2
<1>4. CASE EditAdjustment(e)
  <2>1. PICK amount \in Int :
          /\ amount = book.rows[pending[e].row].amount \/ amount \in 1..pending[e].owed
          /\ book.rows[pending[e].row].amount \in Int /\ book.rows[pending[e].row] # None
          /\ Owed(book', p) = Owed(book, p) + book.rows[pending[e].row].amount - amount
    BY <1>4, EditsOwed
  <2>2. now = owes + book.rows[pending[e].row].amount
    BY <1>2, <1>4, <2>1 DEF EditAdjustment
  <2>3. PICK was \in Int : was = book.rows[pending[e].row].amount
    BY <2>1
  <2>4. Owed(book', p) = owes + was - amount /\ now = owes + was /\ (amount = was \/ amount \in 1..pending[e].owed)
    BY <1>2, <2>1, <2>2, <2>3
  <2> QED
    BY <1>1, <1>2, <2>4
<1>5. CASE book' = book
  BY <1>2, <1>5
<1>6. ASSUME book' # book
      PROVE  Forgive(e) \/ EditAdjustment(e)
  <2>1. pending'[e] # pending[e]
    BY DEF Idle
  <2>2. LendsNext
    BY <1>6 DEF lendVars
  <2>3. PICK d \in Editors : MarkPaidFor(d) \/ SettleWith(d) \/ SetSettlementLend(d) \/ Forgive(d)
                             \/ EditAdjustment(d) \/ WriteTransaction(d)
    BY <1>6, <2>1, <2>2 DEF LendsNext, SplitBill, CreateLend, UpdateLend, DeleteLend, Unsettle, DeleteTransaction, AtOnce,
       ReadBill, ReadPin, ReadSettlement, ReadOwed, ReadRoom, ReadTransaction, Opens, Rollback
  <2>4. d = e
    <3>1. pending' = [pending EXCEPT ![d] = Idle]
      BY <2>3 DEF MarkPaidFor, SettleWith, SetSettlementLend, Forgive, EditAdjustment, WriteTransaction, Ends
    <3> QED
      BY <1>1, <2>1, <3>1
  <2> QED
    BY <2>3, <2>4 DEF MarkPaidFor, SettleWith, SetSettlementLend, WriteTransaction
<1> QED
  BY <1>3, <1>4, <1>5, <1>6

\* Forgiving, and raising what was forgiven, never leaves the user in debt
\* (api/lends.go, Forgive and UpdateForgiveness), unless what was owed shrank.
THEOREM ForgivenStaysOwed == LendsSpec => ForgivenIsOwed
<1> DEFINE Fair ==
      \A r \in Editors :
        pending[r].kind \in {"forgive", "adjust"} /\ pending'[r] = Idle =>
          LET p == pending[r].who
              now == Owed(book, p) + (IF pending[r].kind = "adjust" /\ book.rows[pending[r].row] # None
                                      THEN book.rows[pending[r].row].amount ELSE 0)
          IN Owed(book', p) < Owed(book, p) => Owed(book', p) >= 0 \/ now < pending[r].owed
<1>1. LendsInv /\ [LendsNext]_lendVars => [Fair]_lendVars
  BY ForgivenStep, Zenon
<1> QED
  BY <1>1, LendsStarts, LendsStep, PTL DEF LendsSpec, ForgivenIsOwed

LEMMA CoversTrue ==
  LendsInv => CoversCurrent
<1> SUFFICES ASSUME LendsInv, NEW p \in People, Payments(book, p) \cap raced = {}
             PROVE  /\ \A t \in Payments(book, p) : book.covers[t] = Cover(book, t)
                    /\ \A l \in Lent(book, p) :
                         MapThenSumSet(LAMBDA t : book.covers[t].amount,
                                       {t \in Slots : book.covers[t] # None /\ book.covers[t].lend = l})
                           <= book.lends[l].principal
  BY DEF CoversCurrent
<1>1. SoundBook(book, raced) /\ PaidUp(book, raced)
  BY DEF LendsInv, Good
<1>2. \A t \in Payments(book, p) : book.covers[t] = Cover(book, t)
  BY <1>1 DEF PaidUp, Current
<1>3. PICK b, r : b = book /\ r = raced
  OBVIOUS
<1>4. ASSUME NEW l \in Lent(b, p)
      PROVE  SumAmounts(b.covers, {t \in Slots : b.covers[t] # None /\ b.covers[t].lend = l}) <= b.lends[l].principal
  BY <1>1, <1>3, CoverSum
<1>5. \A l \in Lent(book, p) :
        SumAmounts(book.covers, {t \in Slots : book.covers[t] # None /\ book.covers[t].lend = l}) <= book.lends[l].principal
  BY <1>3, <1>4
<1> QED
  BY <1>2, <1>5 DEF SumAmounts

\* What is shown as repaid is what the pins, payments and principals say
\* (db/lends.go, RebalanceLends), and nothing is paid before it is lent
\* (CheckLendOrder), whatever is edited, re-pinned, shared or deleted.
THEOREM PaymentsStayInOrder == LendsSpec => []PaidInOrder
<1>1. LendsInv => PaidAfterLent
  BY DEF LendsInv, Good, PaidUp, After, PaidAfterLent
<1> QED
  BY <1>1, CoversTrue, LendsAlways, PTL DEF PaidInOrder

\* What the slots of the bill and of its cuts add up to.
Worth(rows) == [t \in Slots |-> IF rows[t] = None THEN 0 ELSE rows[t].amount]
BillSlots == {Bill} \cup {t \in Slots : t > 5}
Charged(rows) == SumOver(Worth(rows), BillSlots)

LEMMA ZeroTerms ==
  ASSUME NEW f, NEW S, IsFiniteSet(S), \A x \in S : f[x] = 0
  PROVE  SumOver(f, S) = 0
<1> DEFINE Bad == {V \in SUBSET S : SumOver(f, V) # 0}
<1>1. Bad = {}
  <2> SUFFICES ASSUME Bad # {} PROVE FALSE
    OBVIOUS
  <2>1. PICK V \in Bad : \A W \in SUBSET V : W # V => W \notin Bad
    <3>1. Bad \in SUBSET (SUBSET S)
      OBVIOUS
    <3> HIDE DEF Bad
    <3> QED BY <3>1, SmallestSubset
  <2>2. V \in SUBSET S /\ SumOver(f, V) # 0 /\ Terms(f, V)
    BY FS_Subset DEF Terms
  <2>3. V # {}
    BY <2>2, TotalOf
  <2>4. PICK y \in V : TRUE
    BY <2>3
  <2>5. SumOver(f, V) = f[y] + SumOver(f, V \ {y})
    BY <2>2, TotalOf
  <2>6. SumOver(f, V \ {y}) = 0
    BY <2>1, <2>2, <2>4
  <2> QED
    BY <2>2, <2>5, <2>6
<1> QED
  BY <1>1

LEMMA PairSame ==
  ASSUME NEW f, NEW g, NEW S, NEW x \in S, NEW y \in S, x # y, Terms(f, S), Terms(g, S),
         f[x] + f[y] = g[x] + g[y], \A z \in S : z # x /\ z # y => g[z] = f[z]
  PROVE  SumOver(g, S) = SumOver(f, S)
<1>1. PICK h : h = [z \in S |-> IF z = x THEN g[x] ELSE f[z]]
  OBVIOUS
<1>2. SumOver(h, S) = SumOver(f, S) + h[x] - f[x] /\ Terms(h, S) /\ SumOver(f, S) \in Int
  <2>1. h[x] \in Int /\ \A z \in S : z # x => h[z] = f[z]
    BY <1>1 DEF Terms
  <2> QED
    BY <2>1, TotalChanged
<1>3. SumOver(g, S) = SumOver(h, S) + g[y] - h[y] /\ SumOver(h, S) \in Int
  <2>1. g[y] \in Int /\ \A z \in S : z # y => g[z] = h[z]
    BY <1>1 DEF Terms
  <2>2. Terms(h, S)
    BY <1>2
  <2> QED
    BY <2>1, <2>2, TotalChanged
<1>4. h[x] = g[x] /\ h[y] = f[y] /\ f[x] \in Int /\ f[y] \in Int /\ g[x] \in Int /\ g[y] \in Int
  BY <1>1 DEF Terms
<1> QED
  BY <1>2, <1>3, <1>4

LEMMA WorthIs ==
  ASSUME NEW rows, rows \in [Slots -> {None} \cup RowSet]
  PROVE  /\ \A t \in Slots : /\ Worth(rows)[t] = IF rows[t] = None THEN 0 ELSE rows[t].amount
                             /\ Worth(rows)[t] \in Nat
         /\ Terms(Worth(rows), BillSlots) /\ Charged(rows) \in Int
         /\ Bill \in BillSlots /\ BillSlots \subseteq Slots /\ \A l \in Shares : Cut(l) \in BillSlots /\ Cut(l) # Bill
         /\ \A t \in BillSlots : t = Bill \/ \E l \in Shares : t = Cut(l)
<1>1. /\ Bill \in BillSlots /\ BillSlots \subseteq Slots /\ (\A l \in Shares : Cut(l) \in BillSlots /\ Cut(l) # Bill)
      /\ IsFiniteSet(BillSlots) /\ \A t \in BillSlots : t = Bill \/ \E l \in Shares : t = Cut(l)
  BY SlotFacts, FS_Subset DEF BillSlots
<1>2. \A t \in Slots : /\ Worth(rows)[t] = IF rows[t] = None THEN 0 ELSE rows[t].amount
                       /\ Worth(rows)[t] \in Nat
  BY DEF Worth, RowSet
<1>3. Terms(Worth(rows), BillSlots)
  BY <1>1, <1>2 DEF Terms
<1>4. Charged(rows) \in Int
  BY <1>3, TotalOf DEF Charged
<1> QED
  BY <1>1, <1>2, <1>3, <1>4

LEMMA ChargedIs ==
  ASSUME NEW rows, rows \in [Slots -> {None} \cup RowSet],
         NEW T, T = {t \in Slots : t > 5 /\ rows[t] # None} \cup {t \in {Bill} : rows[t] # None}
  PROVE  SumAmounts(rows, T) = Charged(rows)
<1>1. PICK f, U : f = Worth(rows) /\ U = BillSlots \ T
  OBVIOUS
<1>2. /\ T \cup U = BillSlots /\ T \cap U = {} /\ Terms(f, T \cup U) /\ IsFiniteSet(T) /\ IsFiniteSet(U)
      /\ \A t \in T : f[t] = rows[t].amount
      /\ \A t \in U : f[t] = 0
  <2>1. T \subseteq BillSlots
    BY DEF BillSlots
  <2>2. T \cup U = BillSlots /\ T \cap U = {}
    BY <1>1, <2>1
  <2>3. Terms(f, BillSlots) /\ BillSlots \subseteq Slots /\ \A t \in Slots : f[t] = IF rows[t] = None THEN 0 ELSE rows[t].amount
    BY <1>1, WorthIs
  <2>4. IsFiniteSet(T) /\ IsFiniteSet(U)
    BY <2>2, <2>3, FS_Subset DEF Terms
  <2>5. \A t \in T : rows[t] # None
    OBVIOUS
  <2>6. \A t \in U : rows[t] = None
    BY <1>1 DEF BillSlots
  <2> QED
    BY <2>1, <2>2, <2>3, <2>4, <2>5, <2>6
<1>3. SumOver(f, T \cup U) = SumOver(f, T) + SumOver(f, U) /\ SumOver(f, T) \in Int
  BY <1>2, TotalUnion
<1>4. SumOver(f, U) = 0
  BY <1>2, ZeroTerms
<1>5. SumOver(f, T) = SumAmounts(rows, T)
  <2>1. PICK g : g = [t \in T |-> rows[t].amount]
    OBVIOUS
  <2>2. SumAmounts(rows, T) = SumOver(g, T)
    BY <1>2, <2>1, AmountsTotal
  <2>3. \A t \in T : f[t] = g[t]
    BY <1>2, <2>1
  <2>4. SumOver(f, T) = SumOver(g, T)
    BY <1>2, <2>3, TotalSame
  <2> QED
    BY <2>2, <2>4
<1>6. Charged(rows) = SumOver(f, T \cup U)
  BY <1>1, <1>2 DEF Charged
<1> QED
  BY <1>3, <1>4, <1>5, <1>6

\* Between the bill and one share nothing is lost.
LEMMA ChargedSame ==
  ASSUME NEW rows, rows \in [Slots -> {None} \cup RowSet], NEW new, new \in [Slots -> {None} \cup RowSet],
         NEW l \in Shares, Worth(new)[Bill] + Worth(new)[Cut(l)] = Worth(rows)[Bill] + Worth(rows)[Cut(l)],
         \A t \in BillSlots : t # Bill /\ t # Cut(l) => Worth(new)[t] = Worth(rows)[t]
  PROVE  Charged(new) = Charged(rows)
<1>1. PICK f, g, x, y : f = Worth(rows) /\ g = Worth(new) /\ x = Bill /\ y = Cut(l)
  OBVIOUS
<1>2. Terms(f, BillSlots) /\ Terms(g, BillSlots) /\ x \in BillSlots /\ y \in BillSlots /\ x # y
  BY <1>1, WorthIs
<1>3. SumOver(g, BillSlots) = SumOver(f, BillSlots)
  BY <1>1, <1>2, PairSame
<1> QED
  BY <1>1, <1>3 DEF Charged

LEMMA ChargedAlike ==
  ASSUME NEW rows, rows \in [Slots -> {None} \cup RowSet], NEW new, new \in [Slots -> {None} \cup RowSet],
         \A t \in BillSlots : Worth(new)[t] = Worth(rows)[t]
  PROVE  Charged(new) = Charged(rows)
<1>1. IsFiniteSet(BillSlots)
  BY WorthIs DEF Terms
<1> QED
  BY <1>1, TotalSame DEF Charged

LEMMA ChargedBill ==
  ASSUME NEW rows, rows \in [Slots -> {None} \cup RowSet], NEW new, new \in [Slots -> {None} \cup RowSet],
         \A t \in BillSlots : t # Bill => Worth(new)[t] = Worth(rows)[t]
  PROVE  Charged(new) = Charged(rows) + Worth(new)[Bill] - Worth(rows)[Bill]
<1>1. PICK f, g, x : f = Worth(rows) /\ g = Worth(new) /\ x = Bill
  OBVIOUS
<1>2. Terms(f, BillSlots) /\ Terms(g, BillSlots) /\ x \in BillSlots
  BY <1>1, WorthIs
<1>3. g[x] \in Int /\ \A t \in BillSlots : t # x => g[t] = f[t]
  BY <1>1, <1>2 DEF Terms
<1>4. SumOver(g, BillSlots) = SumOver(f, BillSlots) + g[x] - f[x]
  BY <1>2, <1>3, TotalChanged
<1> QED
  BY <1>1, <1>4 DEF Charged

LEMMA CutSums ==
  ASSUME NEW f, Terms(f, BillSlots), NEW D \in SUBSET Shares, NEW part \in [D -> Nat], \A l \in D : f[Cut(l)] = 0
  PROVE  \A E \in SUBSET D :
           SumOver([t \in BillSlots |-> IF \E l \in E : t = Cut(l) THEN part[t - 5] ELSE f[t]], BillSlots)
             = SumOver(f, BillSlots) + SumOver(part, E)
<1> DEFINE Cutting(E) == [t \in BillSlots |-> IF \E l \in E : t = Cut(l) THEN part[t - 5] ELSE f[t]]
<1> DEFINE Bad == {E \in SUBSET D : SumOver(Cutting(E), BillSlots) # SumOver(f, BillSlots) + SumOver(part, E)}
<1>0. /\ \A l \in D : Cut(l) \in BillSlots /\ Cut(l) - 5 = l /\ \A k \in D : Cut(k) = Cut(l) => k = l
      /\ IsFiniteSet(D) /\ IsFiniteSet(BillSlots)
  BY SlotFacts, FS_Subset DEF BillSlots, Terms
<1>1. \A E \in SUBSET D : Terms(part, E) /\ SumOver(part, E) \in Int
  <2>1. ASSUME NEW E \in SUBSET D
        PROVE  Terms(part, E)
    BY <1>0, FS_Subset DEF Terms
  <2> QED
    BY <2>1, TotalOf
<1>2. \A E \in SUBSET D : Terms(Cutting(E), BillSlots)
  BY <1>0 DEF Terms
<1>3. SumOver(f, BillSlots) \in Int
  BY TotalOf
<1>4. Bad = {}
  <2> SUFFICES ASSUME Bad # {} PROVE FALSE
    OBVIOUS
  <2>1. PICK V \in Bad : \A W \in SUBSET V : W # V => W \notin Bad
    <3>1. Bad \in SUBSET (SUBSET D)
      OBVIOUS
    <3> HIDE DEF Bad
    <3> QED BY <1>0, <3>1, SmallestSubset
  <2>2. V \in SUBSET D /\ SumOver(Cutting(V), BillSlots) # SumOver(f, BillSlots) + SumOver(part, V)
    OBVIOUS
  <2>3. CASE V = {}
    <3>1. PICK h : h = Cutting(V)
      OBVIOUS
    <3>2. \A t \in BillSlots : h[t] = f[t]
      BY <2>3, <3>1
    <3>3. SumOver(h, BillSlots) = SumOver(f, BillSlots)
      BY <1>0, <3>2, TotalSame
    <3>4. SumOver(part, V) = 0
      BY <1>1, <2>2, <2>3, TotalOf
    <3> QED
      BY <1>3, <2>2, <3>1, <3>3, <3>4
  <2>4. CASE V # {}
    <3>1. PICK l \in V : TRUE
      BY <2>4
    <3>2. PICK W : W = V \ {l}
      OBVIOUS
    <3>3. W \in SUBSET D /\ W \in SUBSET V /\ W # V /\ l \in D
      BY <2>2, <3>1, <3>2
    <3>4. SumOver(Cutting(W), BillSlots) = SumOver(f, BillSlots) + SumOver(part, W)
      BY <2>1, <3>3
    <3>5. PICK g, h : g = Cutting(V) /\ h = Cutting(W)
      OBVIOUS
    <3> HIDE DEF Bad
    <3>6. \A t \in BillSlots : t # Cut(l) => g[t] = h[t]
      BY <3>2, <3>5
    <3>7. g[Cut(l)] = part[l] /\ h[Cut(l)] = 0
      BY <1>0, <3>1, <3>2, <3>3, <3>5
    <3>8. Terms(g, BillSlots) /\ Terms(h, BillSlots) /\ Cut(l) \in BillSlots /\ part[l] \in Int
      BY <1>0, <1>2, <2>2, <3>3, <3>5
    <3> HIDE DEF Cutting
    <3>14. PICK k : k = Cut(l)
      OBVIOUS
    <3>15. Terms(h, BillSlots) /\ k \in BillSlots /\ g[k] \in Int /\ \A t \in BillSlots : t # k => g[t] = h[t]
      BY <3>6, <3>7, <3>8, <3>14
    <3>16. SumOver(g, BillSlots) = SumOver(h, BillSlots) + g[k] - h[k] /\ SumOver(h, BillSlots) \in Int
      BY <3>15, TotalChanged
    <3>9. SumOver(g, BillSlots) = SumOver(h, BillSlots) + part[l] - 0
      BY <3>7, <3>14, <3>16
    <3>10. SumOver(part, V) = part[l] + SumOver(part, W)
      BY <1>1, <2>2, <3>1, <3>2, TotalOf
    <3>11. SumOver(g, BillSlots) # SumOver(f, BillSlots) + SumOver(part, V)
      BY <2>2, <3>5
    <3>12. SumOver(h, BillSlots) = SumOver(f, BillSlots) + SumOver(part, W)
      BY <3>4, <3>5
    <3>13. SumOver(part, W) \in Int
      BY <1>1, <3>3
    <3> QED
      BY <1>3, <3>8, <3>9, <3>10, <3>11, <3>12, <3>13
  <2> QED
    BY <2>3, <2>4
<1> QED
  BY <1>4

Value(row) == IF row = None THEN 0 ELSE row.amount

\* What the bill loses its share gains.
Trades(b, c, l, bill, row) ==
  /\ c.rows = [b.rows EXCEPT ![Bill] = bill, ![Cut(l)] = row]
  /\ Value(bill) + Value(row) = Value(b.rows[Bill]) + Value(b.rows[Cut(l)])

LEMMA RowsOf ==
  ASSUME NEW b, NEW r, Tabled(b, r)
  PROVE  /\ b.rows \in [Slots -> {None} \cup RowSet] /\ IsBook(b) /\ b.lends \in [LendIds -> {None} \cup LendSet]
         /\ Sound(b.rows, b.lends, b.settled, r)
         /\ \A t \in Slots : Worth(b.rows)[t] = Value(b.rows[t]) /\ Value(b.rows[t]) \in Nat
<1>1. Sound(b.rows, b.lends, b.settled, r)
  BY DEF Tabled, SoundBook
<1>2. b.rows \in [Slots -> {None} \cup RowSet] /\ b.lends \in [LendIds -> {None} \cup LendSet]
  BY <1>1 DEF Sound, Kinds
<1>3. \A t \in Slots : Worth(b.rows)[t] = Value(b.rows[t]) /\ Value(b.rows[t]) \in Nat
  BY <1>2, WorthIs DEF Value
<1> QED
  BY <1>1, <1>2, <1>3 DEF Tabled

LEMMA TradesCharged ==
  ASSUME NEW b, NEW r, Tabled(b, r), NEW c, NEW s, Tabled(c, s), NEW l \in Shares, NEW bill, NEW row, Trades(b, c, l, bill, row)
  PROVE  Charged(c.rows) = Charged(b.rows)
<1>1. PICK rows, new : rows = b.rows /\ new = c.rows
  OBVIOUS
<1>2. rows \in [Slots -> {None} \cup RowSet] /\ new \in [Slots -> {None} \cup RowSet]
  BY <1>1, RowsOf
<1>3. Bill \in Slots /\ Cut(l) \in Slots /\ Cut(l) # Bill /\ BillSlots \subseteq Slots
  BY <1>2, WorthIs
<1>4. new[Bill] = bill /\ new[Cut(l)] = row /\ \A t \in Slots : t # Bill /\ t # Cut(l) => new[t] = rows[t]
  BY <1>1, <1>2, <1>3 DEF Trades
<1>5. \A t \in Slots : Worth(rows)[t] = Value(rows[t]) /\ Worth(new)[t] = Value(new[t])
  BY <1>1, RowsOf
<1>6. Worth(new)[Bill] + Worth(new)[Cut(l)] = Worth(rows)[Bill] + Worth(rows)[Cut(l)]
  BY <1>1, <1>3, <1>4, <1>5 DEF Trades
<1>7. \A t \in BillSlots : t # Bill /\ t # Cut(l) => Worth(new)[t] = Worth(rows)[t]
  BY <1>3, <1>4, <1>5
<1>8. Charged(new) = Charged(rows)
  BY <1>2, <1>6, <1>7, ChargedSame
<1> QED
  BY <1>1, <1>8

LEMMA RowValue ==
  ASSUME NEW row \in RowSet
  PROVE  Value(row) = row.amount /\ row.amount \in Nat /\ row # None
BY NoneIsNoRow DEF Value, RowSet

LEMMA MovedCharged ==
  ASSUME NEW b, NEW r, Tabled(b, r), NEW l \in Shares, b.lends[l] # None, NEW share \in 1..Total(b, l),
         NEW c, c = Moved(b, l, share)
  PROVE  Charged(c.rows) = Charged(b.rows) /\ c.lends[l].principal = share /\ c.lends[l].txn = Cut(l)
<1>0. /\ l \in LendIds /\ Cut(l) \in Slots /\ Bill \in Slots /\ Cut(l) # Bill
  BY SlotFacts
<1>1. PICK total \in Nat : total = Total(b, l)
  BY TotalIsNat
<1>2. PICK rest \in Nat : rest = Total(b, l) - share
  BY <1>1
<1>3. /\ b.rows \in [Slots -> {None} \cup RowSet] /\ b.lends[l] \in LendSet /\ IsBook(b) /\ b.rows[Bill] \in RowSet
      /\ b.lends \in [LendIds -> {None} \cup LendSet]
      /\ b.lends[l].txn \in {Bill, Cut(l)} /\ (b.lends[l].txn = Bill => b.rows[Cut(l)] = None)
      /\ (b.lends[l].txn = Cut(l) => b.rows[Cut(l)] \in RowSet)
  <2>1. Sound(b.rows, b.lends, b.settled, r) /\ IsBook(b)
    BY RowsOf
  <2> QED
    BY <2>1, OneBill, RowsOf
<1>4. PICK bill, row, lend :
        /\ bill = [b.rows[Bill] EXCEPT !.type = IF b.lends[l].txn = Bill THEN "expense" ELSE b.rows[Bill].type,
                                       !.amount = rest]
        /\ row = IF b.lends[l].txn = Bill THEN [type |-> "lend", amount |-> share, day |-> b.rows[Bill].day]
                 ELSE [b.rows[Cut(l)] EXCEPT !.amount = share]
        /\ lend = [b.lends[l] EXCEPT !.txn = Cut(l), !.principal = share]
  OBVIOUS
<1>5. c = [b EXCEPT !.rows[Bill] = bill, !.rows[Cut(l)] = IF b.lends[l].txn = Bill
                             THEN [type |-> "lend", amount |-> share, day |-> b.rows[Bill].day]
                             ELSE [@ EXCEPT !.amount = share], !.lends[l] = lend]
  BY <1>2, <1>4 DEF Moved
<1>6. c.rows = [b.rows EXCEPT ![Bill] = bill, ![Cut(l)] = row] /\ c.lends = [b.lends EXCEPT ![l] = lend]
  <2>1. PICK e : e = [b EXCEPT !.rows[Bill] = bill]
    OBVIOUS
  <2>2. e.rows = [b.rows EXCEPT ![Bill] = bill] /\ IsBook(e) /\ e.lends = b.lends
    BY <1>3, <2>1 DEF IsBook
  <2>3. e.rows[Cut(l)] = b.rows[Cut(l)]
    BY <1>0, <1>3, <2>2
  <2>4. c = [e EXCEPT !.rows[Cut(l)] = row, !.lends[l] = lend]
    BY <1>4, <1>5, <2>1, <2>3
  <2>5. c.rows = [e.rows EXCEPT ![Cut(l)] = row] /\ c.lends = [e.lends EXCEPT ![l] = lend]
    BY <2>2, <2>4 DEF IsBook
  <2> QED
    BY <2>2, <2>5
<1>7. share \in Nat /\ share + rest = total
  BY <1>1, <1>2
<1>8. bill \in RowSet /\ bill.amount = rest
  BY <1>3, <1>4 DEF RowSet, RowTypes, Plain
<1>9. row \in RowSet /\ row.amount = share
  <2>1. CASE b.lends[l].txn = Bill
    BY <1>3, <1>4, <1>7, <2>1 DEF RowSet, RowTypes
  <2>2. CASE b.lends[l].txn # Bill
    BY <1>3, <1>4, <1>7, <2>2 DEF RowSet
  <2> QED
    BY <2>1, <2>2
<1>10. Value(b.rows[Bill]) + Value(b.rows[Cut(l)]) = total
  <2>1. Value(b.rows[Bill]) = b.rows[Bill].amount /\ b.rows[Bill].amount \in Nat
    BY <1>3, RowValue
  <2>2. CASE b.lends[l].txn = Bill
    <3>1. Value(b.rows[Cut(l)]) = 0
      BY <1>3, <2>2 DEF Value
    <3>2. total = b.rows[Bill].amount
      BY <1>1, <2>2, TotalIsNat
    <3> QED
      BY <2>1, <3>1, <3>2
  <2>3. CASE b.lends[l].txn # Bill
    <3>1. Value(b.rows[Cut(l)]) = b.rows[Cut(l)].amount /\ b.rows[Cut(l)].amount \in Nat
      BY <1>3, <2>3, RowValue
    <3>2. total = b.rows[Cut(l)].amount + b.rows[Bill].amount
      BY <1>1, <2>3, TotalIsNat
    <3> QED
      BY <2>1, <3>1, <3>2
  <2> QED
    BY <2>2, <2>3
<1>11. Trades(b, c, l, bill, row)
  <2>1. Value(bill) = rest /\ Value(row) = share
    BY <1>8, <1>9, RowValue
  <2> QED
    BY <1>6, <1>7, <1>10, <2>1 DEF Trades
<1>12. Tabled(c, r)
  <2>1. Touches(b, c, {b.lends[l].who}, r, r)
    BY MovedTouches
  <2> QED
    BY <2>1, TouchedTabled
<1>13. Charged(c.rows) = Charged(b.rows)
  BY <1>11, <1>12, TradesCharged
<1>14. c.lends[l] = lend /\ lend.principal = share /\ lend.txn = Cut(l)
  BY <1>0, <1>3, <1>4, <1>6 DEF LendSet
<1> QED
  BY <1>13, <1>14

LEMMA WholeCharged ==
  ASSUME NEW b, NEW r, Tabled(b, r), NEW l \in Shares, b.lends[l] # None, b.lends[l].txn # Bill, ~Others(b, l),
         \A k \in Shares : b.lends[k] # None => b.lends[k].txn # Bill, NEW c, c = Whole(b, l)
  PROVE  Charged(c.rows) = Charged(b.rows) /\ c.lends[l].principal = Total(b, l)
<1>0. /\ l \in LendIds /\ Cut(l) \in Slots /\ Bill \in Slots /\ Cut(l) # Bill
  BY SlotFacts
<1>1. PICK total \in Nat : total = Total(b, l)
  BY TotalIsNat
<1>2. /\ b.rows \in [Slots -> {None} \cup RowSet] /\ b.lends[l] \in LendSet /\ IsBook(b) /\ b.rows[Bill] \in RowSet
      /\ b.lends \in [LendIds -> {None} \cup LendSet]
      /\ b.rows[Cut(l)] \in RowSet
  <2>1. Sound(b.rows, b.lends, b.settled, r) /\ IsBook(b)
    BY RowsOf
  <2> QED
    BY <2>1, OneBill, RowsOf
<1>3. PICK bill, lend, row :
        /\ bill = [b.rows[Bill] EXCEPT !.type = "lend", !.amount = total]
        /\ lend = [b.lends[l] EXCEPT !.txn = Bill, !.principal = total]
        /\ row = None
  OBVIOUS
<1>4. c = [b EXCEPT !.rows[Bill] = bill, !.rows[Cut(l)] = row, !.lends[l] = lend]
  BY <1>1, <1>3 DEF Whole
<1>5. c.lends = [b.lends EXCEPT ![l] = lend] /\ c.rows = [b.rows EXCEPT ![Bill] = bill, ![Cut(l)] = row]
  BY <1>2, <1>4 DEF IsBook
<1>6. bill \in RowSet /\ bill.amount = total
  BY <1>2, <1>3 DEF RowSet, RowTypes
<1>7. Trades(b, c, l, bill, row)
  <2>1. Value(bill) = total /\ Value(row) = 0
    BY <1>3, <1>6, RowValue DEF Value
  <2>2. /\ Value(b.rows[Bill]) = b.rows[Bill].amount /\ b.rows[Bill].amount \in Nat
        /\ Value(b.rows[Cut(l)]) = b.rows[Cut(l)].amount /\ b.rows[Cut(l)].amount \in Nat
    BY <1>2, RowValue
  <2>3. total = b.rows[Cut(l)].amount + b.rows[Bill].amount
    BY <1>1, TotalIsNat
  <2> QED
    BY <1>5, <2>1, <2>2, <2>3 DEF Trades
<1>8. Tabled(c, r)
  <2>1. Touches(b, c, {b.lends[l].who}, r, r)
    BY WholeTouches
  <2> QED
    BY <2>1, TouchedTabled
<1>9. Charged(c.rows) = Charged(b.rows)
  BY <1>7, <1>8, TradesCharged
<1>10. c.lends[l] = lend /\ lend.principal = total
  BY <1>0, <1>2, <1>3, <1>5 DEF LendSet
<1> QED
  BY <1>1, <1>9, <1>10

LEMMA SharedCharged ==
  ASSUME NEW b, NEW r, Tabled(b, r), NEW l \in Shares, b.lends[l] # None, NEW share, CanShare(b, l, share),
         NEW c, c = Shared(b, l, share)
  PROVE  Charged(c.rows) = Charged(b.rows) /\ (Bill \notin r => c.lends[l].principal = share)
<1>1. PICK total \in Nat : total = Total(b, l)
  BY TotalIsNat
<1>2. share \in 1..total /\ share \in 1..Total(b, l)
  BY <1>1 DEF CanShare
<1>3. CASE share < Total(b, l) \/ (b.lends[l].txn # Bill /\ Others(b, l))
  <2>1. c = Moved(b, l, share)
    BY <1>3 DEF Shared
  <2> QED
    BY <1>2, <2>1, MovedCharged
<1>4. CASE ~ (share < Total(b, l) \/ (b.lends[l].txn # Bill /\ Others(b, l)))
  <2>0. share = total
    BY <1>1, <1>2, <1>4
  <2>1. CASE b.lends[l].txn # Bill
    <3>1. c = Whole(b, l)
      BY <1>4, <2>1 DEF Shared
    <3>3. ~Others(b, l) /\ \A k \in Shares : b.lends[k] # None => b.lends[k].txn # Bill
      BY <1>1, <1>4, <2>0, <2>1 DEF CanShare
    <3>4. Charged(c.rows) = Charged(b.rows) /\ c.lends[l].principal = Total(b, l)
      BY <2>1, <3>1, <3>3, WholeCharged
    <3> QED
      BY <1>1, <2>0, <3>4
  <2>2. CASE b.lends[l].txn = Bill
    <3>1. c = b
      BY <1>4, <2>2 DEF Shared
    <3>2. total = b.rows[Bill].amount
      BY <1>1, <2>2, TotalIsNat
    <3>3. Bill \notin r => b.rows[Bill] = LendRow(b.lends[l])
      BY <2>2, RowsOf, OneBill
    <3>4. LendRow(b.lends[l]).amount = b.lends[l].principal
      BY DEF LendRow
    <3> QED
      BY <2>0, <3>1, <3>2, <3>3, <3>4
  <2> QED
    BY <2>1, <2>2
<1> QED
  BY <1>3, <1>4

LEMMA MarkedCharged ==
  ASSUME NEW b, NEW c, NEW l, NEW p, NEW r, NEW s, Marks(b, c, l, p, r, s)
  PROVE  Charged(c.rows) = Charged(b.rows)
<1>1. Tabled(b, r) /\ Tabled(c, s)
  <2>1. Touches(b, c, {p}, r, s)
    BY MarkedTouches
  <2> QED
    BY <2>1, TouchedTabled DEF Marks
<1>2. \A t \in Slots : /\ c.rows[t] = None <=> b.rows[t] = None
                       /\ b.rows[t] # None => c.rows[t].amount = b.rows[t].amount
  BY MarkedTouches
<1>3. PICK rows, new : rows = b.rows /\ new = c.rows
  OBVIOUS
<1>4. rows \in [Slots -> {None} \cup RowSet] /\ new \in [Slots -> {None} \cup RowSet]
  BY <1>1, <1>3, RowsOf
<1>5. \A t \in Slots : Worth(rows)[t] = Value(rows[t]) /\ Worth(new)[t] = Value(new[t])
  BY <1>1, <1>3, RowsOf
<1>6. \A t \in BillSlots : Worth(new)[t] = Worth(rows)[t]
  BY <1>2, <1>3, <1>4, <1>5, WorthIs DEF Value
<1> QED
  BY <1>3, <1>4, <1>6, ChargedAlike

LEMMA AlikeCharged ==
  ASSUME NEW b, NEW r, Tabled(b, r), NEW c, c.rows \in [Slots -> {None} \cup RowSet],
         \A t \in BillSlots : Value(c.rows[t]) = Value(b.rows[t])
  PROVE  Charged(c.rows) = Charged(b.rows)
<1>1. PICK rows, new : rows = b.rows /\ new = c.rows
  OBVIOUS
<1>2. rows \in [Slots -> {None} \cup RowSet] /\ new \in [Slots -> {None} \cup RowSet]
  BY <1>1, RowsOf
<1>3. \A t \in Slots : Worth(rows)[t] = Value(rows[t]) /\ Worth(new)[t] = Value(new[t])
  BY <1>1, <1>2, WorthIs DEF Value
<1>4. \A t \in BillSlots : Worth(new)[t] = Worth(rows)[t]
  BY <1>1, <1>2, <1>3, WorthIs
<1> QED
  BY <1>1, <1>2, <1>4, ChargedAlike

LEMMA UnmarkedCharged ==
  ASSUME NEW b, NEW r, Good(b, r), NEW l \in Shares, b.lends[l] # None, NEW c, c = Unmarked(b, l)
  PROVE  Charged(c.rows) = Charged(b.rows)
<1>0. l \in LendIds /\ Cut(l) \in Slots /\ Bill \in Slots /\ Cut(l) # Bill /\ Tabled(b, r)
  BY SlotFacts, TouchedTabled
<1>1. PICK d : d = Without(b, l)
  OBVIOUS
<1>2. IsBook(d) /\ d.rows = b.rows
  BY <1>0, <1>1 DEF Tabled, IsBook, Without
<1>3. /\ b.rows \in [Slots -> {None} \cup RowSet] /\ b.rows[Bill] \in RowSet
      /\ b.lends[l].txn \in {Bill, Cut(l)} /\ (b.lends[l].txn = Bill => b.rows[Cut(l)] = None)
      /\ (b.lends[l].txn = Cut(l) => b.rows[Cut(l)] \in RowSet)
  <2>1. Sound(b.rows, b.lends, b.settled, r)
    BY <1>0, RowsOf
  <2> QED
    BY <1>0, <2>1, OneBill, RowsOf
<1>4. PICK bill, row : /\ bill = IF b.lends[l].txn = Bill THEN [b.rows[Bill] EXCEPT !.type = "expense"]
                                 ELSE [b.rows[Bill] EXCEPT !.amount = b.rows[Bill].amount + b.rows[Cut(l)].amount]
                       /\ row = None
  OBVIOUS
<1>5. c.rows = [b.rows EXCEPT ![Bill] = bill, ![Cut(l)] = row]
  <2>1. CASE b.lends[l].txn = Bill
    <3>1. c = [d EXCEPT !.rows[Bill].type = "expense"]
      BY <1>1, <2>1 DEF Unmarked
    <3>2. c.rows = [b.rows EXCEPT ![Bill] = bill]
      BY <1>2, <1>4, <2>1, <3>1 DEF IsBook
    <3>3. [b.rows EXCEPT ![Bill] = bill] = [b.rows EXCEPT ![Bill] = bill, ![Cut(l)] = row]
      BY <1>0, <1>3, <1>4, <2>1
    <3> QED
      BY <3>2, <3>3
  <2>2. CASE b.lends[l].txn # Bill
    <3>1. PICK e : e = [d EXCEPT !.rows[Cut(l)] = None]
      OBVIOUS
    <3>2. c = [e EXCEPT !.rows[Bill].amount = @ + b.rows[Cut(l)].amount]
      BY <1>1, <1>3, <2>2, <3>1 DEF Unmarked
    <3>3. e.rows = [b.rows EXCEPT ![Cut(l)] = None] /\ IsBook(e)
      BY <1>2, <3>1 DEF IsBook
    <3>4. e.rows[Bill] = b.rows[Bill]
      BY <1>0, <1>3, <3>3
    <3>5. c = [e EXCEPT !.rows[Bill] = bill]
      BY <1>4, <2>2, <3>2, <3>4
    <3>6. c.rows = [e.rows EXCEPT ![Bill] = bill]
      BY <3>3, <3>5 DEF IsBook
    <3>7. [e.rows EXCEPT ![Bill] = bill] = [b.rows EXCEPT ![Bill] = bill, ![Cut(l)] = row]
      BY <1>0, <1>3, <1>4, <3>3
    <3> QED
      BY <3>6, <3>7
  <2> QED
    BY <2>1, <2>2
<1>6. Trades(b, c, l, bill, row)
  <2>1. Value(b.rows[Bill]) = b.rows[Bill].amount /\ b.rows[Bill].amount \in Nat /\ Value(row) = 0
    BY <1>3, <1>4, RowValue DEF Value
  <2>2. CASE b.lends[l].txn = Bill
    <3>1. bill \in RowSet /\ bill.amount = b.rows[Bill].amount
      BY <1>3, <1>4, <2>2 DEF RowSet, RowTypes, Plain
    <3>2. Value(bill) = b.rows[Bill].amount /\ Value(b.rows[Cut(l)]) = 0
      BY <1>3, <2>2, <3>1, RowValue DEF Value
    <3> QED
      BY <1>5, <2>1, <3>2 DEF Trades
  <2>3. CASE b.lends[l].txn # Bill
    <3>1. Value(b.rows[Cut(l)]) = b.rows[Cut(l)].amount /\ b.rows[Cut(l)].amount \in Nat
      BY <1>3, <2>3, RowValue
    <3>2. bill \in RowSet /\ bill.amount = b.rows[Bill].amount + b.rows[Cut(l)].amount
      BY <1>3, <1>4, <2>1, <2>3, <3>1 DEF RowSet
    <3>3. Value(bill) = bill.amount
      BY <3>2, RowValue
    <3> QED
      BY <1>5, <2>1, <3>1, <3>2, <3>3 DEF Trades
  <2> QED
    BY <2>2, <2>3
<1>7. Tabled(c, r)
  <2>1. Touches(b, c, {b.lends[l].who}, r, r)
    BY UnmarkedTouches
  <2> QED
    BY <2>1, TouchedTabled
<1> QED
  BY <1>0, <1>6, <1>7, TradesCharged

LEMMA ReassignedCharged ==
  ASSUME NEW b, NEW r, Tabled(b, r), NEW l \in LendIds, b.lends[l] # None, Bill \notin r,
         NEW p \in People, NEW amount \in Nat, NEW day \in Nat, l # CashLend => amount = b.lends[l].principal \/ b.lends[l].txn # Bill,
         NEW c, c = Reassigned(b, l, p, amount, day), c.rows \in [Slots -> {None} \cup RowSet]
  PROVE  Charged(c.rows) = Charged(b.rows)
<1>0. /\ CashOut # Bill /\ CashOut \in Slots /\ Bill \in Slots /\ \A k \in Shares : Cut(k) # CashOut
      /\ LendIds = Shares \cup {CashLend}
  BY SlotFacts
<1>1. /\ b.rows \in [Slots -> {None} \cup RowSet] /\ IsBook(b) /\ Sound(b.rows, b.lends, b.settled, r)
      /\ CashRow(b.rows, b.lends)
  <2>1. Sound(b.rows, b.lends, b.settled, r)
    BY RowsOf
  <2> QED
    BY <2>1, RowsOf DEF Sound
<1>2. \A t \in BillSlots : t \in Slots /\ t # CashOut
  BY <1>0, <1>1, WorthIs
<1>3. PICK unpinned, lend : c = IF b.lends[l].txn \in {Bill, CashOut}
          THEN [b EXCEPT !.settled = unpinned, !.lends[l] = lend,
                    !.rows[b.lends[l].txn] = [@ EXCEPT !.amount = amount, !.day = day]]
          ELSE [b EXCEPT !.settled = unpinned, !.lends[l].who = p]
  <2>1. PICK unpinned : unpinned = IF b.lends[l].who = p THEN b.settled
                ELSE [t \in Slots |-> IF b.settled[t] # None /\ b.settled[t].pin = l
                                        THEN [b.settled[t] EXCEPT !.pin = Overall] ELSE b.settled[t]]
    OBVIOUS
  <2>2. PICK lend : lend = [b.lends[l] EXCEPT !.who = p, !.principal = amount, !.day = day]
    OBVIOUS
  <2>3. c = IF b.lends[l].txn \in {Bill, CashOut}
          THEN [b EXCEPT !.settled = unpinned, !.lends[l] = lend,
                    !.rows[b.lends[l].txn] = [@ EXCEPT !.amount = amount, !.day = day]]
          ELSE [b EXCEPT !.settled = unpinned, !.lends[l].who = p]
    BY <2>1, <2>2 DEF Reassigned
  <2> QED
    BY <2>3
<1>4. CASE b.lends[l].txn \notin {Bill, CashOut}
  <2>1. c.rows = b.rows
    BY <1>1, <1>3, <1>4 DEF IsBook
  <2> QED
    BY <2>1
<1>5. CASE b.lends[l].txn \in {Bill, CashOut}
  <2>1. PICK t, row : t = b.lends[l].txn /\ row = [b.rows[t] EXCEPT !.amount = amount, !.day = day]
    OBVIOUS
  <2>2. c = [b EXCEPT !.settled = unpinned, !.lends[l] = lend, !.rows[t] = row]
    BY <1>3, <1>5, <2>1
  <2>3. c.rows = [b.rows EXCEPT ![t] = row]
    BY <1>1, <2>2 DEF IsBook
  <2>4. CASE t = CashOut
    <3>1. \A u \in BillSlots : c.rows[u] = b.rows[u]
      BY <1>1, <1>2, <2>3, <2>4
    <3> QED
      BY <3>1, AlikeCharged
  <2>5. CASE t = Bill
    <3>1. l \in Shares /\ amount = b.lends[l].principal
      BY <1>0, <1>1, <2>1, <2>5 DEF CashRow
    <3>2. b.rows[Bill] = LendRow(b.lends[l]) /\ b.rows[Bill] \in RowSet
      <4>1. b.lends[l].txn = Bill /\ l \in Shares
        BY <2>1, <2>5, <3>1
      <4> QED
        BY <1>1, <4>1, OneBill
    <3>3. b.rows[Bill].amount = amount
      BY <3>1, <3>2 DEF LendRow
    <3>4. row \in RowSet /\ row.amount = amount
      BY <2>1, <2>5, <3>2 DEF RowSet
    <3>5. Value(row) = Value(b.rows[Bill])
      BY <3>2, <3>3, <3>4, RowValue
    <3>6. \A u \in BillSlots : u # Bill => c.rows[u] = b.rows[u]
      BY <1>1, <1>2, <2>3, <2>5
    <3>7. c.rows[Bill] = row
      BY <1>0, <1>1, <2>3, <2>5
    <3>8. \A u \in BillSlots : Value(c.rows[u]) = Value(b.rows[u])
      BY <3>5, <3>6, <3>7
    <3> QED
      BY <3>8, AlikeCharged
  <2> QED
    BY <1>5, <2>1, <2>4, <2>5
<1> QED
  BY <1>4, <1>5

LEMMA SplitCharged ==
  ASSUME NEW b, NEW r, Tabled(b, r), NEW D \in SUBSET Shares, \A l \in D : b.lends[l] = None,
         b.rows[Bill] # None, NEW who \in [D -> People],
         NEW part \in [D -> Nat], SumOver(part, D) <= b.rows[Bill].amount,
         NEW c, c = SplitAmong(b, who, part), c.rows \in [Slots -> {None} \cup RowSet]
  PROVE  Charged(c.rows) = Charged(b.rows)
<1>0. /\ Bill \in Slots /\ IsFiniteSet(D)
      /\ \A k \in Shares : Cut(k) \in Slots /\ Cut(k) # Bill /\ Cut(k) - 5 = k
      /\ \A k, l \in Shares : Cut(k) = Cut(l) => k = l
  BY SlotFacts, FS_Subset
<1>1. /\ b.rows \in [Slots -> {None} \cup RowSet] /\ c.rows \in [Slots -> {None} \cup RowSet]
      /\ Sound(b.rows, b.lends, b.settled, r) /\ IsBook(b) /\ b.rows[Bill] \in RowSet
  <2>1. Sound(b.rows, b.lends, b.settled, r)
    BY RowsOf
  <2> QED
    BY <1>0, <2>1, RowsOf
<1>2. PICK rows, new : rows = b.rows /\ new = c.rows
  OBVIOUS
<1>3. PICK sum \in Int : sum = SumOver(part, D)
  BY <1>0, TotalOf DEF Terms
<1>4. PICK rest \in Nat : rest = b.rows[Bill].amount - sum
  <2>1. PICK m \in Nat : m = b.rows[Bill].amount
    BY <1>1 DEF RowSet
  <2> QED
    BY <1>3, <2>1
<1>5. new = SplitRows(rows, D, part, rest)
  <2>1. DOMAIN who = D
    OBVIOUS
  <2> QED
    BY <1>1, <1>2, <1>3, <1>4, <2>1 DEF IsBook, SplitAmong, SplitRows, SumOver
<1>6. \A l \in D : rows[Cut(l)] = None
  BY <1>1, <1>2 DEF Sound, ShareRows, On
<1>7. \A t \in Slots : /\ t = Bill => new[t] = [rows[t] EXCEPT !.amount = rest]
                       /\ \A l \in D : t = Cut(l) => new[t] # None /\ new[t].amount = part[l]
                       /\ t # Bill /\ (\A l \in D : t # Cut(l)) => new[t] = rows[t]
  <2>1. ASSUME NEW t \in Slots, NEW l \in D, t = Cut(l)
        PROVE  new[t] # None /\ new[t].amount = part[l]
    <3>1. t - 5 = l /\ t # Bill
      BY <1>0, <2>1
    <3>2. new[t].amount = part[l] /\ new[t] = [type |-> "lend", amount |-> part[l], day |-> rows[Bill].day]
      BY <1>5, <2>1, <3>1 DEF SplitRows
    <3>3. new[t] \in RowSet
      <4>1. part[l] \in Nat /\ rows[Bill].day \in Nat
        BY <1>1, <1>2 DEF RowSet
      <4> QED
        BY <3>2, <4>1 DEF RowSet, RowTypes
    <3> QED
      BY <3>2, <3>3, NoneIsNoRow
  <2>2. ASSUME NEW t \in Slots, t = Bill
        PROVE  new[t] = [rows[t] EXCEPT !.amount = rest]
    BY <1>5, <2>2 DEF SplitRows
  <2>3. ASSUME NEW t \in Slots, t # Bill, \A l \in D : t # Cut(l)
        PROVE  new[t] = rows[t]
    BY <1>5, <2>3 DEF SplitRows
  <2> QED
    BY <2>1, <2>2, <2>3
<1>8. PICK f, g : f = Worth(rows) /\ g = Worth(new)
  OBVIOUS
<1>9. /\ Terms(f, BillSlots) /\ Terms(g, BillSlots) /\ Bill \in BillSlots /\ BillSlots \subseteq Slots
      /\ \A t \in Slots : f[t] = Value(rows[t]) /\ g[t] = Value(new[t])
  BY <1>1, <1>2, <1>8, WorthIs DEF Value
<1>10. /\ \A l \in D : f[Cut(l)] = 0 /\ g[Cut(l)] = part[l]
       /\ \A t \in BillSlots : t # Bill /\ (\A l \in D : t # Cut(l)) => g[t] = f[t]
  <2>1. ASSUME NEW l \in D
        PROVE  f[Cut(l)] = 0 /\ g[Cut(l)] = part[l]
    <3>1. PICK t \in Slots : t = Cut(l)
      BY <1>0
    <3>2. rows[t] = None /\ new[t] # None /\ new[t].amount = part[l]
      BY <1>6, <1>7, <3>1
    <3> QED
      BY <1>9, <3>1, <3>2 DEF Value
  <2>2. ASSUME NEW t \in BillSlots, t # Bill, \A l \in D : t # Cut(l)
        PROVE  g[t] = f[t]
    <3>1. t \in Slots /\ new[t] = rows[t]
      BY <1>7, <1>9, <2>2
    <3> QED
      BY <1>9, <3>1
  <2> QED
    BY <2>1, <2>2
<1>11. f[Bill] = b.rows[Bill].amount /\ g[Bill] = rest /\ b.rows[Bill].amount \in Nat
  <2>1. new[Bill] \in RowSet /\ new[Bill].amount = rest
    BY <1>0, <1>1, <1>2, <1>7 DEF RowSet
  <2> QED
    BY <1>0, <1>1, <1>2, <1>9, <2>1, RowValue
<1>12. PICK h : h = [t \in BillSlots |-> IF \E l \in D : t = Cut(l) THEN part[t - 5] ELSE f[t]]
  OBVIOUS
<1>13. SumOver(h, BillSlots) = SumOver(f, BillSlots) + sum
  <2>1. \A E \in SUBSET D :
           SumOver([t \in BillSlots |-> IF \E l \in E : t = Cut(l) THEN part[t - 5] ELSE f[t]], BillSlots)
             = SumOver(f, BillSlots) + SumOver(part, E)
    BY <1>9, <1>10, CutSums
  <2>2. D \in SUBSET D
    OBVIOUS
  <2> QED
    BY <1>3, <1>12, <2>1, <2>2
<1>14. \A t \in BillSlots : t # Bill => g[t] = h[t]
  BY <1>0, <1>10, <1>12
<1>15. h[Bill] = f[Bill]
  BY <1>0, <1>9, <1>12
<1>16. Terms(h, BillSlots) /\ g[Bill] \in Int
  BY <1>9, <1>14, <1>15 DEF Terms
<1>17. SumOver(g, BillSlots) = SumOver(h, BillSlots) + g[Bill] - h[Bill] /\ SumOver(h, BillSlots) \in Int
  <2>1. PICK x \in BillSlots : x = Bill
    BY <1>9
  <2>2. Terms(h, BillSlots) /\ g[x] \in Int /\ \A t \in BillSlots : t # x => g[t] = h[t]
    BY <1>14, <1>16, <2>1
  <2>3. SumOver(g, BillSlots) = SumOver(h, BillSlots) + g[x] - h[x] /\ SumOver(h, BillSlots) \in Int
    BY <2>2, TotalChanged
  <2> QED
    BY <2>1, <2>3
<1>18. SumOver(f, BillSlots) \in Int
  BY <1>9, TotalOf
<1>19. SumOver(g, BillSlots) = SumOver(f, BillSlots)
  BY <1>3, <1>4, <1>11, <1>13, <1>15, <1>17, <1>18
<1> QED
  BY <1>2, <1>8, <1>19 DEF Charged

LEMMA GoodRows ==
  ASSUME NEW d, NEW r, Good(d, r)
  PROVE  Tabled(d, r) /\ IsBook(d) /\ d.rows \in [Slots -> {None} \cup RowSet]
<1>1. Tabled(d, r)
  BY TouchedTabled
<1> QED
  BY <1>1, RowsOf

LEMMA RebalancedRows ==
  ASSUME NEW c, NEW P, NEW d, d = Rebalanced(c, P), IsBook(d)
  PROVE  d.rows = c.rows
<1>1. PICK covers : d = [c EXCEPT !.covers = covers]
  BY DEF Rebalanced
<1>2. DOMAIN d = DOMAIN c /\ "rows" \in DOMAIN d /\ "rows" # "covers"
  BY <1>1 DEF IsBook
<1> QED
  BY <1>1, <1>2

\* A row that is not the bill's or of a share, or whose amount stays.
LEMMA ElsewhereCharged ==
  ASSUME NEW b, NEW r, Tabled(b, r), NEW c, c.rows \in [Slots -> {None} \cup RowSet], NEW t \in Slots, NEW row,
         c.rows = [b.rows EXCEPT ![t] = row], t \notin BillSlots \/ Value(row) = Value(b.rows[t])
  PROVE  Charged(c.rows) = Charged(b.rows)
<1>1. b.rows \in [Slots -> {None} \cup RowSet] /\ BillSlots \subseteq Slots
  BY RowsOf, WorthIs
<1>2. \A u \in BillSlots : Value(c.rows[u]) = Value(b.rows[u])
  BY <1>1
<1> QED
  BY <1>2, AlikeCharged

LEMMA NotOfBill == /\ CashOut \notin BillSlots /\ Credit \notin BillSlots /\ \A t \in Adjustments : t \notin BillSlots
                   /\ \A t \in BillSlots : t \in Slots
BY SlotFacts DEF BillSlots, Bill, CashOut, Credit, Adjustments

LEMMA SplitBillCharged ==
  ASSUME LendsInv, SplitBill
  PROVE  Charged(book'.rows) = Charged(book.rows)
<1>1. PICK b, r, d : b = book /\ r = raced /\ d = book'
  OBVIOUS
<1>2. Tabled(b, r) /\ IsBook(d) /\ d.rows \in [Slots -> {None} \cup RowSet]
  <2>1. Good(b, r) /\ Good(d, raced')
    BY <1>1, SplitBillKeeps DEF LendsInv
  <2> QED
    BY <2>1, GoodRows
<1>3. PICK ids \in SUBSET {l \in Shares : b.lends[l] = None} :
        \E own \in [ids -> People \ SharedWith(b)], part \in [ids -> 1..Price] : \E new :
           /\ MapThenSumSet(LAMBDA l : part[l], ids) <= b.rows[Bill].amount
           /\ d = Rebalanced(SplitAmong(b, own, part), new)
  BY <1>1 DEF SplitBill, Commits
<1>4. PICK own \in [ids -> People \ SharedWith(b)], part \in [ids -> 1..Price] :
        \E new : /\ MapThenSumSet(LAMBDA l : part[l], ids) <= b.rows[Bill].amount
                 /\ d = Rebalanced(SplitAmong(b, own, part), new)
  BY <1>3
<1>5. PICK new, c : /\ c = SplitAmong(b, own, part)
                    /\ MapThenSumSet(LAMBDA l : part[l], ids) <= b.rows[Bill].amount
                    /\ d = Rebalanced(c, new)
  BY <1>4
<1>6. SumOver(part, ids) <= b.rows[Bill].amount
  BY <1>5 DEF SumOver
<1>7. own \in [ids -> People] /\ part \in [ids -> Nat] /\ ids \in SUBSET Shares /\ \A l \in ids : b.lends[l] = None
  BY SlotFacts
<1>8. d.rows = c.rows
  BY <1>2, <1>5, RebalancedRows
<1>9. b.rows[Bill] # None /\ c.rows \in [Slots -> {None} \cup RowSet]
  BY <1>1, <1>2, <1>8 DEF SplitBill
<1>10. Charged(c.rows) = Charged(b.rows)
  BY <1>2, <1>5, <1>6, <1>7, <1>9, SplitCharged
<1> QED
  BY <1>1, <1>8, <1>10

LEMMA CreateLendCharged ==
  ASSUME LendsInv, CreateLend
  PROVE  Charged(book'.rows) = Charged(book.rows)
<1>1. PICK b, r, d : b = book /\ r = raced /\ d = book'
  OBVIOUS
<1>2. Tabled(b, r) /\ IsBook(b) /\ IsBook(d) /\ d.rows \in [Slots -> {None} \cup RowSet]
  <2>1. Good(b, r) /\ Good(d, raced')
    BY <1>1, CreateLendKeeps DEF LendsInv
  <2> QED
    BY <2>1, GoodRows
<1>3. PICK row, lend, P : d = Rebalanced([b EXCEPT !.rows[CashOut] = row, !.lends[CashLend] = lend], P)
  BY <1>1 DEF CreateLend, Commits
<1>4. PICK c : c = [b EXCEPT !.rows[CashOut] = row, !.lends[CashLend] = lend]
  OBVIOUS
<1>5. d.rows = c.rows
  BY <1>2, <1>3, <1>4, RebalancedRows
<1>6. d.rows = [b.rows EXCEPT ![CashOut] = row]
  BY <1>2, <1>4, <1>5 DEF IsBook
<1>7. CashOut \in Slots /\ CashOut \notin BillSlots
  BY SlotFacts, NotOfBill
<1>8. Charged(d.rows) = Charged(b.rows)
  BY <1>2, <1>6, <1>7, ElsewhereCharged
<1> QED
  BY <1>1, <1>8

LEMMA UpdateLendCharged ==
  ASSUME LendsInv, UpdateLend, Bill \notin raced
  PROVE  Charged(book'.rows) = Charged(book.rows)
<1>1. PICK b, r, d : b = book /\ r = raced /\ d = book'
  OBVIOUS
<1>2. Tabled(b, r) /\ IsBook(b) /\ IsBook(d) /\ d.rows \in [Slots -> {None} \cup RowSet] /\ Bill \notin r
  <2>1. Good(b, r) /\ Good(d, raced') /\ Bill \notin r
    BY <1>1, UpdateLendKeeps DEF LendsInv
  <2> QED
    BY <2>1, GoodRows
<1>3. PICK l \in LendIds :
        \E p \in People, amount \in 1..Price, day \in Days :
          /\ b.lends[l] # None
          /\ \E e, P : /\ e = IF l = CashLend \/ amount = b.lends[l].principal THEN b ELSE Shared(b, l, amount)
                       /\ l = CashLend \/ amount = b.lends[l].principal \/ CanShare(b, l, amount)
                       /\ d = Rebalanced(Reassigned(e, l, p, amount, day), P)
  BY <1>1 DEF UpdateLend, Commits
<1>4. PICK p \in People, amount \in 1..Price, day \in Days :
          /\ b.lends[l] # None
          /\ \E e, P : /\ e = IF l = CashLend \/ amount = b.lends[l].principal THEN b ELSE Shared(b, l, amount)
                       /\ l = CashLend \/ amount = b.lends[l].principal \/ CanShare(b, l, amount)
                       /\ d = Rebalanced(Reassigned(e, l, p, amount, day), P)
  BY <1>3
<1>5. PICK e, c, P :
        /\ c = Reassigned(e, l, p, amount, day)
        /\ e = IF l = CashLend \/ amount = b.lends[l].principal THEN b ELSE Shared(b, l, amount)
        /\ l = CashLend \/ amount = b.lends[l].principal \/ CanShare(b, l, amount)
        /\ d = Rebalanced(c, P)
  BY <1>4
<1>6. Tabled(e, r) /\ e.lends[l] # None /\ (l # CashLend => e.lends[l].principal = amount) /\ Charged(e.rows) = Charged(b.rows)
  <2>1. CASE l = CashLend \/ amount = b.lends[l].principal
    BY <1>2, <1>4, <1>5, <2>1
  <2>2. CASE ~ (l = CashLend \/ amount = b.lends[l].principal)
    <3>1. e = Shared(b, l, amount) /\ CanShare(b, l, amount) /\ l \in Shares
      BY <1>5, <2>2, SlotFacts
    <3>2. PICK Q : Q = {b.lends[l].who}
      OBVIOUS
    <3>3. Touches(b, e, Q, r, r) /\ e.lends[l] # None
      BY <1>2, <1>4, <3>1, <3>2, SharedTouches
    <3>4. Charged(e.rows) = Charged(b.rows) /\ e.lends[l].principal = amount
      BY <1>2, <1>4, <3>1, SharedCharged
    <3> QED
      BY <3>3, <3>4, TouchedTabled
  <2> QED
    BY <2>1, <2>2
<1>7. d.rows = c.rows
  BY <1>2, <1>5, RebalancedRows
<1>8. amount \in Nat /\ day \in Nat /\ c.rows \in [Slots -> {None} \cup RowSet]
  BY <1>2, <1>7, SlotFacts
<1>9. Charged(c.rows) = Charged(e.rows)
  BY <1>2, <1>5, <1>6, <1>8, ReassignedCharged
<1> QED
  BY <1>1, <1>6, <1>7, <1>9

LEMMA DeleteLendCharged ==
  ASSUME LendsInv, DeleteLend
  PROVE  Charged(book'.rows) = Charged(book.rows)
<1>1. PICK b, r, d : b = book /\ r = raced /\ d = book'
  OBVIOUS
<1>2. Good(b, r) /\ Tabled(b, r) /\ IsBook(b) /\ IsBook(d) /\ d.rows \in [Slots -> {None} \cup RowSet]
  <2>1. Good(b, r) /\ Good(d, raced')
    BY <1>1, DeleteLendKeeps DEF LendsInv
  <2> QED
    BY <2>1, GoodRows
<1>3. PICK l \in LendIds :
        /\ b.lends[l] # None
        /\ \E c, P : /\ c = IF l = CashLend THEN [Without(b, l) EXCEPT !.rows[CashOut] = None] ELSE Unmarked(b, l)
                     /\ d = Rebalanced(c, P)
  BY <1>1 DEF DeleteLend, Commits
<1>4. PICK c, P : /\ c = IF l = CashLend THEN [Without(b, l) EXCEPT !.rows[CashOut] = None] ELSE Unmarked(b, l)
                  /\ d = Rebalanced(c, P)
  BY <1>3
<1>5. d.rows = c.rows
  BY <1>2, <1>4, RebalancedRows
<1>6. CASE l = CashLend
  <2>1. PICK w : w = Without(b, l)
    OBVIOUS
  <2>2. w.rows = b.rows /\ IsBook(w)
    BY <1>2, <2>1 DEF IsBook, Without
  <2>3. c = [w EXCEPT !.rows[CashOut] = None]
    BY <1>4, <1>6, <2>1
  <2>4. c.rows = [w.rows EXCEPT ![CashOut] = None]
    BY <2>2, <2>3 DEF IsBook
  <2>5. d.rows = [b.rows EXCEPT ![CashOut] = None]
    BY <1>5, <2>2, <2>4
  <2>6. CashOut \in Slots /\ CashOut \notin BillSlots
    BY SlotFacts, NotOfBill
  <2>7. Charged(d.rows) = Charged(b.rows)
    BY <1>2, <2>5, <2>6, ElsewhereCharged
  <2> QED
    BY <1>1, <2>7
<1>7. CASE l # CashLend
  <2>1. c = Unmarked(b, l) /\ l \in Shares
    BY <1>4, <1>7, SlotFacts
  <2>2. Charged(c.rows) = Charged(b.rows)
    BY <1>2, <1>3, <2>1, UnmarkedCharged
  <2> QED
    BY <1>1, <1>5, <2>2
<1> QED
  BY <1>6, <1>7

LEMMA UnsettleCharged ==
  ASSUME LendsInv, Unsettle
  PROVE  Charged(book'.rows) = Charged(book.rows)
<1>1. PICK b, r, d : b = book /\ r = raced /\ d = book'
  OBVIOUS
<1>2. Tabled(b, r) /\ IsBook(b) /\ IsBook(d) /\ d.rows \in [Slots -> {None} \cup RowSet]
  <2>1. Good(b, r) /\ Good(d, raced')
    BY <1>1, UnsettleKeeps DEF LendsInv
  <2> QED
    BY <2>1, GoodRows
<1>3. PICK t \in Slots : b.settled[t] # None /\ \E P : d = Rebalanced(Unsettled(b, t), P)
  BY <1>1 DEF Unsettle, Commits
<1>4. PICK c, P : c = Unsettled(b, t) /\ d = Rebalanced(c, P)
  BY <1>3
<1>5. PICK row : row = IF b.rows[t].type = "writeoff" THEN None ELSE [b.rows[t] EXCEPT !.type = "income"]
  OBVIOUS
<1>6. d.rows = [b.rows EXCEPT ![t] = row]
  <2>1. d.rows = c.rows
    BY <1>2, <1>4, RebalancedRows
  <2>2. c.rows = [b.rows EXCEPT ![t] = row]
    BY <1>2, <1>4, <1>5 DEF Unsettled, IsBook
  <2> QED
    BY <2>1, <2>2
<1>7. t \in BillSlots => Value(row) = Value(b.rows[t])
  <2> SUFFICES ASSUME t \in BillSlots
               PROVE  Value(row) = Value(b.rows[t])
    OBVIOUS
  <2>1. Sound(b.rows, b.lends, b.settled, r) /\ b.rows \in [Slots -> {None} \cup RowSet]
    BY <1>2, RowsOf
  <2>2. t = Bill /\ b.rows[Bill] # None /\ b.rows[Bill].type # "writeoff"
    <3>1. t \in {Bill, Credit} \cup Adjustments /\ b.rows[t] # None /\ (b.rows[Bill] # None => b.rows[Bill].type # "writeoff")
      BY <1>3, <2>1 DEF Sound, PaidRows
    <3> QED
      BY <3>1, NotOfBill
  <2>3. b.rows[Bill] \in RowSet /\ row = [b.rows[Bill] EXCEPT !.type = "income"]
    BY <1>5, <2>1, <2>2
  <2>4. row \in RowSet /\ row.amount = b.rows[Bill].amount
    BY <2>3 DEF RowSet, RowTypes, Plain
  <2> QED
    BY <2>2, <2>3, <2>4, RowValue
<1>8. Charged(d.rows) = Charged(b.rows)
  BY <1>2, <1>6, <1>7, ElsewhereCharged
<1> QED
  BY <1>1, <1>8

LEMMA MarkPaidForCharged ==
  ASSUME LendsInv, NEW e \in Editors, MarkPaidFor(e)
  PROVE  Charged(book'.rows) = Charged(book.rows)
<1>1. PICK b, r, d, s : b = book /\ r = raced /\ d = book' /\ s = raced'
  OBVIOUS
<1>2. Tabled(b, r) /\ IsBook(d)
  <2>1. Good(b, r) /\ Good(d, s)
    BY <1>1, MarkPaidForKeeps DEF LendsInv
  <2> QED
    BY <2>1, GoodRows
<1>3. /\ b.rows[Bill] # None /\ b.rows[Bill].type = "expense"
      /\ \E l \in Shares : b.lends[l] = None
      /\ s = IF Cuts(b) # {} THEN r \cup {Bill} ELSE r
  BY <1>1 DEF MarkPaidFor
<1>4. r \subseteq s /\ (Bill \in s \/ Cuts(b) = {})
  BY <1>3
<1>5. PICK p \in People, share \in 1..b.rows[Bill].amount :
        \E P : d = Rebalanced(Shared(Marked(b, p), FreeShare(b), share), P)
  BY <1>1 DEF MarkPaidFor, Commits
<1>6. PICK l, m, c, P :
        /\ l = FreeShare(b) /\ m = Marked(b, p) /\ c = Shared(m, l, share)
        /\ d = Rebalanced(c, P)
  BY <1>5
<1>7. Marks(b, m, l, p, r, s)
  BY <1>2, <1>3, <1>4, <1>6 DEF Marks
<1>8. Charged(m.rows) = Charged(b.rows)
  BY <1>7, MarkedCharged
<1>9. Touches(b, m, {p}, r, s)
  BY <1>7, MarkedTouches
<1>10. Tabled(m, s)
  BY <1>9, TouchedTabled
<1>11. l \in Shares /\ m.lends[l] # None /\ m.lends[l].txn = Bill /\ m.rows[Bill].amount = b.rows[Bill].amount
  BY <1>7, <1>9, MarkedTouches DEF Holds
<1>12. CanShare(m, l, share)
  <2>1. Total(m, l) = m.rows[Bill].amount
    BY <1>10, <1>11, TotalIsNat
  <2>2. share \in 1..Total(m, l)
    BY <1>11, <2>1
  <2> QED
    BY <1>11, <2>2 DEF CanShare
<1>13. Charged(c.rows) = Charged(m.rows)
  BY <1>6, <1>10, <1>11, <1>12, SharedCharged
<1>14. d.rows = c.rows
  BY <1>2, <1>6, RebalancedRows
<1> QED
  BY <1>1, <1>8, <1>13, <1>14

LEMMA SettleWithCharged ==
  ASSUME LendsInv, NEW e \in Editors, SettleWith(e)
  PROVE  Charged(book'.rows) = Charged(book.rows)
<1>1. PICK b, r, d, w : b = book /\ r = raced /\ d = book' /\ w = pending[e]
  OBVIOUS
<1>2. Tabled(b, r) /\ IsBook(b) /\ IsBook(d) /\ d.rows \in [Slots -> {None} \cup RowSet]
  <2>1. Good(b, r) /\ Good(d, raced')
    BY <1>1, SettleWithKeeps DEF LendsInv
  <2> QED
    BY <2>1, GoodRows
<1>3. PICK t \in {Bill, Credit} : b.rows[t] # None /\ \E P : d = Rebalanced(Settled(b, t, w.who, w.pin), P)
  BY <1>1 DEF SettleWith, Commits
<1>4. PICK c, P : c = Settled(b, t, w.who, w.pin) /\ d = Rebalanced(c, P)
  BY <1>3
<1>5. t \in Slots /\ b.rows[t] \in RowSet
  <2>1. b.rows \in [Slots -> {None} \cup RowSet]
    BY <1>2, RowsOf
  <2>2. t \in Slots
    BY SlotFacts
  <2> QED
    BY <1>3, <2>1, <2>2
<1>6. PICK row : row = [b.rows[t] EXCEPT !.type = "lend_repayment"]
  OBVIOUS
<1>7. d.rows = [b.rows EXCEPT ![t] = row]
  <2>1. d.rows = c.rows
    BY <1>2, <1>4, RebalancedRows
  <2>2. c.rows = [b.rows EXCEPT ![t] = row]
    BY <1>2, <1>4, <1>6 DEF Settled, IsBook
  <2> QED
    BY <2>1, <2>2
<1>8. row \in RowSet /\ row.amount = b.rows[t].amount
  BY <1>5, <1>6 DEF RowSet, RowTypes
<1>9. Value(row) = Value(b.rows[t])
  BY <1>5, <1>8, RowValue
<1>10. Charged(d.rows) = Charged(b.rows)
  BY <1>2, <1>5, <1>7, <1>9, ElsewhereCharged
<1> QED
  BY <1>1, <1>10

LEMMA SetSettlementLendCharged ==
  ASSUME LendsInv, NEW e \in Editors, SetSettlementLend(e)
  PROVE  Charged(book'.rows) = Charged(book.rows)
<1>1. PICK b, d, w : b = book /\ d = book' /\ w = pending[e]
  OBVIOUS
<1>2. IsBook(b) /\ IsBook(d)
  <2>1. Good(b, raced) /\ Good(d, raced')
    BY <1>1, SetSettlementLendKeeps DEF LendsInv
  <2> QED
    BY <2>1, GoodRows
<1>3. PICK P : d = Rebalanced([b EXCEPT !.settled[w.row].pin = w.pin], P)
  BY <1>1 DEF SetSettlementLend, Commits
<1>4. PICK c : c = [b EXCEPT !.settled[w.row].pin = w.pin]
  OBVIOUS
<1>5. d.rows = c.rows
  BY <1>2, <1>3, <1>4, RebalancedRows
<1>6. c.rows = b.rows
  BY <1>2, <1>4 DEF IsBook
<1> QED
  BY <1>1, <1>5, <1>6

LEMMA AdjustmentsCharged ==
  ASSUME LendsInv, NEW e \in Editors, Forgive(e) \/ EditAdjustment(e)
  PROVE  Charged(book'.rows) = Charged(book.rows)
<1>1. PICK b, r, d, w : b = book /\ r = raced /\ d = book' /\ w = pending[e]
  OBVIOUS
<1>2. Tabled(b, r) /\ IsBook(b) /\ IsBook(d) /\ d.rows \in [Slots -> {None} \cup RowSet]
  <2>1. Good(b, r) /\ Good(d, raced')
    BY <1>1, ForgiveKeeps, EditAdjustmentKeeps DEF LendsInv
  <2> QED
    BY <2>1, GoodRows
<1>3. ASSUME NEW t \in Adjustments, NEW row, d.rows = [b.rows EXCEPT ![t] = row]
      PROVE  Charged(d.rows) = Charged(b.rows)
  <2>1. t \in Slots /\ t \notin BillSlots
    BY SlotFacts, NotOfBill
  <2> QED
    BY <1>2, <1>3, <2>1, ElsewhereCharged
<1>4. CASE Forgive(e)
  <2>6. PICK amount \in 1..w.owed, day \in Days :
      \E t \in Adjustments \ Awaited :
        d = Rebalanced([b EXCEPT !.rows[t] = [type |-> "writeoff", amount |-> amount, day |-> day],
                                 !.settled[t] = [who |-> w.who, pin |-> w.pin]], {w.who})
    BY <1>1, <1>4 DEF Forgive, Commits
  <2>1. PICK t \in Adjustments : \E row, pay, P : d = Rebalanced([b EXCEPT !.rows[t] = row, !.settled[t] = pay], P)
    BY <2>6
  <2>2. PICK row, pay, P : d = Rebalanced([b EXCEPT !.rows[t] = row, !.settled[t] = pay], P)
    BY <2>1
  <2>3. PICK c : c = [b EXCEPT !.rows[t] = row, !.settled[t] = pay]
    OBVIOUS
  <2>4. d.rows = c.rows
    BY <1>2, <2>2, <2>3, RebalancedRows
  <2>5. c.rows = [b.rows EXCEPT ![t] = row]
    BY <1>2, <2>3 DEF IsBook
  <2> QED
    BY <1>1, <1>3, <2>4, <2>5
<1>5. CASE EditAdjustment(e)
  <2>1. PICK row, P : d = Rebalanced([b EXCEPT !.rows[w.row] = row], P)
    BY <1>1, <1>5 DEF EditAdjustment, Commits
  <2>2. PICK t, c : t = w.row /\ c = [b EXCEPT !.rows[t] = row]
    OBVIOUS
  <2>3. t \in Adjustments
    BY <1>1, <1>5, <2>2, PendingIs DEF LendsInv, Asked, EditAdjustment
  <2>4. d.rows = c.rows
    BY <1>2, <2>1, <2>2, RebalancedRows
  <2>5. c.rows = [b.rows EXCEPT ![t] = row]
    BY <1>2, <2>2 DEF IsBook
  <2> QED
    BY <1>1, <1>3, <2>3, <2>4, <2>5
<1> QED
  BY <1>4, <1>5

LEMMA DeleteTransactionCharged ==
  ASSUME LendsInv, DeleteTransaction, Charged(book.rows) = charge
  PROVE  Charged(book'.rows) = charge'
<1>1. PICK b, r, d : b = book /\ r = raced /\ d = book'
  OBVIOUS
<1>2. Tabled(b, r) /\ IsBook(b) /\ IsBook(d) /\ d.rows \in [Slots -> {None} \cup RowSet]
  <2>1. Good(b, r) /\ Good(d, raced')
    BY <1>1, DeleteTransactionKeeps DEF LendsInv
  <2> QED
    BY <2>1, GoodRows
<1>3. PICK t \in {Bill, Credit} : /\ t = Bill => Cuts(b) = {}
                                  /\ d = [b EXCEPT !.rows[t] = None]
                                  /\ charge' = IF t = Bill THEN 0 ELSE charge
  BY <1>1 DEF DeleteTransaction
<1>4. d.rows = [b.rows EXCEPT ![t] = None] /\ t \in Slots
  BY <1>2, <1>3, SlotFacts DEF IsBook
<1>5. CASE t = Credit
  <2>1. Charged(d.rows) = Charged(b.rows)
    BY <1>2, <1>4, <1>5, NotOfBill, ElsewhereCharged
  <2>2. Credit # Bill
    BY SlotFacts
  <2> QED
    BY <1>1, <1>3, <1>5, <2>1, <2>2
<1>6. CASE t = Bill
  <2>1. \A u \in BillSlots : d.rows[u] = None
    <3>1. \A u \in Slots : u > 5 => b.rows[u] = None
      BY <1>3, <1>6 DEF Cuts
    <3>2. b.rows \in [Slots -> {None} \cup RowSet]
      BY <1>2, RowsOf
    <3> QED
      BY <1>4, <1>6, <3>1, <3>2 DEF BillSlots
  <2>2. PICK f : f = Worth(d.rows)
    OBVIOUS
  <2>3. IsFiniteSet(BillSlots) /\ \A u \in BillSlots : f[u] = 0
    BY <1>2, <2>1, <2>2, WorthIs DEF Terms
  <2>4. SumOver(f, BillSlots) = 0
    BY <2>3, ZeroTerms
  <2> QED
    BY <1>1, <1>3, <1>6, <2>2, <2>4 DEF Charged
<1> QED
  BY <1>5, <1>6

LEMMA WriteTransactionCharged ==
  ASSUME LendsInv, NEW e \in Editors, WriteTransaction(e), Charged(book.rows) = charge
  PROVE  Charged(book'.rows) = charge'
<1>1. PICK b, r, d, s, w : b = book /\ r = raced /\ d = book' /\ s = raced' /\ w = pending[e]
  OBVIOUS
<1>2. Good(b, r) /\ Tabled(b, r) /\ IsBook(b) /\ IsBook(d) /\ d.rows \in [Slots -> {None} \cup RowSet]
  <2>1. Good(b, r) /\ Good(d, raced')
    BY <1>1, WriteTransactionKeeps DEF LendsInv
  <2> QED
    BY <2>1, GoodRows
<1>3. w.row \in {Bill, Credit} /\ w.type \in Plain
  BY <1>1, PendingIs DEF LendsInv, Asked, WriteTransaction
<1>4. PICK new, was : /\ Writes(b, d, r, s, w, new)
                      /\ was = b.rows[w.row]
                      /\ charge' = IF w.row = Bill THEN charge + (new.amount - was.amount) ELSE charge
  <2>1. PICK t : t = w.row
    OBVIOUS
  <2>2. PICK new : /\ b.rows[t] # None /\ new \in Edits(w, b.rows[t])
                   /\ \E f, sync : /\ f = [b EXCEPT !.rows[t] = new] /\ sync = (t = Bill /\ (w.tool => w.split))
                                   /\ d = IF sync THEN Synced(f) ELSE f
                                   /\ sync => \A p \in SharedWith(f) : InOrder(d, p)
                   /\ charge' = IF t = Bill THEN charge + (new.amount - b.rows[t].amount) ELSE charge
                   /\ s = IF b.rows[t].type # w.type \/ (t = Bill /\ w.split # (Cuts(b) # {})) THEN r \cup {t} ELSE r
    BY <1>1, <2>1 DEF WriteTransaction
  <2> QED
    BY <1>3, <2>1, <2>2 DEF Writes
<1>5. PICK t : t = w.row
  OBVIOUS
<1>6. t \in {Bill, Credit} /\ t \in Slots /\ was \in RowSet /\ new \in RowSet /\ Bill # Credit
  <2>1. t \in Slots /\ b.rows[t] \in RowSet /\ new \in RowSet
    BY <1>2, <1>4, <1>5, Unraced
  <2> QED
    BY <1>3, <1>4, <1>5, <2>1, SlotFacts
<1>7. /\ d.rows[t] = new
      /\ \A u \in BillSlots : u # t => Value(d.rows[u]) = Value(b.rows[u])
  <2>0. b.rows \in [Slots -> {None} \cup RowSet] /\ BillSlots \subseteq Slots
    BY <1>2, RowsOf, WorthIs
  <2>1. CASE w.row = Bill /\ (w.tool => w.split)
    <3>1. d.rows = SyncedRows(b.rows, new)
      BY <1>2, <1>4, <2>1, SyncedKept
    <3>2. d.rows[t] = new
      BY <1>5, <1>6, <2>1, <3>1 DEF SyncedRows
    <3>3. ASSUME NEW u \in BillSlots, u # t
          PROVE  Value(d.rows[u]) = Value(b.rows[u])
      <4>1. u \in Slots /\ u > 5 /\ u # Bill
        BY <1>5, <2>1, <3>3 DEF BillSlots
      <4>2. d.rows[u] = IF b.rows[u] # None THEN [b.rows[u] EXCEPT !.day = new.day] ELSE b.rows[u]
        BY <3>1, <4>1 DEF SyncedRows
      <4>3. CASE b.rows[u] = None
        BY <4>2, <4>3
      <4>4. CASE b.rows[u] # None
        <5>1. PICK row : row = b.rows[u]
          OBVIOUS
        <5>2. row \in RowSet /\ d.rows[u] = [row EXCEPT !.day = new.day]
          BY <2>0, <4>1, <4>2, <4>4, <5>1
        <5>3. d.rows[u] \in RowSet /\ d.rows[u].amount = row.amount
          BY <1>6, <5>2 DEF RowSet
        <5> QED
          BY <5>1, <5>2, <5>3, RowValue
      <4> QED
        BY <4>3, <4>4
    <3> QED
      BY <3>2, <3>3
  <2>2. CASE ~ (w.row = Bill /\ (w.tool => w.split))
    <3>1. d = [b EXCEPT !.rows[w.row] = new]
      BY <1>2, <1>4, <2>2, EditedKept
    <3>2. d.rows = [b.rows EXCEPT ![t] = new]
      BY <1>2, <1>5, <3>1 DEF IsBook
    <3> QED
      BY <1>6, <2>0, <3>2
  <2> QED
    BY <2>1, <2>2
<1>8. CASE t = Credit
  <2>1. \A u \in BillSlots : u # t
    BY <1>8, NotOfBill
  <2>2. Charged(d.rows) = Charged(b.rows)
    BY <1>2, <1>7, <2>1, AlikeCharged
  <2> QED
    BY <1>1, <1>4, <1>5, <1>6, <1>8, <2>2
<1>9. CASE t = Bill
  <2>1. PICK f, g : f = b.rows /\ g = d.rows
    OBVIOUS
  <2>2. f \in [Slots -> {None} \cup RowSet] /\ g \in [Slots -> {None} \cup RowSet]
    BY <1>2, <2>1, RowsOf
  <2>3. \A u \in Slots : Worth(f)[u] = Value(f[u]) /\ Worth(g)[u] = Value(g[u])
    BY <2>2, WorthIs DEF Value
  <2>4. BillSlots \subseteq Slots /\ Charged(f) \in Int
    BY <2>2, WorthIs
  <2>5. \A u \in BillSlots : u # Bill => Worth(g)[u] = Worth(f)[u]
    BY <1>7, <1>9, <2>1, <2>3, <2>4
  <2>6. Charged(g) = Charged(f) + Worth(g)[Bill] - Worth(f)[Bill]
    BY <2>2, <2>5, ChargedBill
  <2>7. /\ Worth(g)[Bill] = new.amount /\ Worth(f)[Bill] = was.amount
        /\ new.amount \in Nat /\ was.amount \in Nat
    <3>1. Value(new) = new.amount /\ Value(was) = was.amount /\ new.amount \in Nat /\ was.amount \in Nat
      BY <1>6, RowValue
    <3>2. g[Bill] = new /\ f[Bill] = was
      BY <1>4, <1>5, <1>7, <1>9, <2>1
    <3> QED
      BY <1>6, <1>9, <2>3, <3>1, <3>2
  <2>8. charge' = charge + (new.amount - was.amount) /\ charge = Charged(f) /\ Charged(book'.rows) = Charged(g)
    BY <1>1, <1>4, <1>5, <1>9, <2>1
  <2> QED
    BY <2>4, <2>6, <2>7, <2>8
<1> QED
  BY <1>6, <1>8, <1>9

LEMMA ReceivableCharged ==
  ASSUME NEW b \in Receivable
  PROVE  Charged(b.rows) = Price
<1>1. /\ b.rows[Bill] # None /\ b.rows[Bill].amount = Price /\ Cuts(b) = {} /\ Good(b, {})
  BY ReceivableGood
<1>2. PICK rows, e : rows = b.rows /\ e = {}
  OBVIOUS
<1>3. rows \in [Slots -> {None} \cup RowSet]
  BY <1>1, <1>2, GoodRows
<1>4. PICK T : T = {t \in Slots : t > 5 /\ rows[t] # None} \cup {t \in {Bill} : rows[t] # None}
  OBVIOUS
<1>5. SumAmounts(rows, T) = Charged(rows)
  BY <1>3, <1>4, ChargedIs
<1>6. T = {Bill}
  BY <1>1, <1>2, <1>4 DEF Cuts
<1>7. rows[Bill].amount \in Int
  BY <1>1, <1>2, LendsAssumption
<1>8. SumAmounts(rows, {Bill}) = rows[Bill].amount
  BY <1>7, AmountsOne
<1> QED
  BY <1>1, <1>2, <1>5, <1>6, <1>8

LEMMA LendingCharged ==
  ASSUME NEW c \in Lending
  PROVE  Charged(c.rows) = Price
<1>1. PICK b \in Receivable : \E m : LendedFrom(b, m, c)
  BY LendingGood
<1>2. PICK m, p, share, e : /\ Marks(b, m, 1, p, e, e) /\ Tabled(m, e) /\ m.lends[1] # None
                            /\ CanShare(m, 1, share) /\ c = Shared(m, 1, share)
  BY <1>1 DEF LendedFrom
<1>3. Charged(m.rows) = Charged(b.rows)
  BY <1>2, MarkedCharged
<1>4. 1 \in Shares
  BY LendingGood
<1>5. Charged(c.rows) = Charged(m.rows)
  BY <1>2, <1>4, SharedCharged
<1> QED
  BY <1>3, <1>5, ReceivableCharged

LEMMA RepaidCharged ==
  ASSUME NEW d \in Repaid
  PROVE  Charged(d.rows) = Price
<1>1. PICK b \in Lending : \E who, pin : d = Rebalanced(Settled(b, Credit, who, pin), People)
  BY DEF Repaid
<1>2. PICK who, pin : d = Rebalanced(Settled(b, Credit, who, pin), People)
  BY <1>1
<1>3. PICK c : c = Settled(b, Credit, who, pin)
  OBVIOUS
<1>4. PICK e : e = {}
  OBVIOUS
<1>5. Tabled(b, e) /\ IsBook(b) /\ IsBook(d) /\ d.rows \in [Slots -> {None} \cup RowSet]
  <2>1. Good(b, e) /\ Good(d, e)
    BY <1>4, LendingGood, RepaidGood
  <2> QED
    BY <2>1, GoodRows
<1>6. d.rows = c.rows
  BY <1>2, <1>3, <1>5, RebalancedRows
<1>7. PICK row : row = [b.rows[Credit] EXCEPT !.type = "lend_repayment"]
  OBVIOUS
<1>8. c.rows = [b.rows EXCEPT ![Credit] = row]
  BY <1>3, <1>5, <1>7 DEF Settled, IsBook
<1>9. Credit \in Slots /\ Credit \notin BillSlots
  BY SlotFacts, NotOfBill
<1>10. Charged(d.rows) = Charged(b.rows)
  BY <1>5, <1>6, <1>8, <1>9, ElsewhereCharged
<1> QED
  BY <1>10, LendingCharged

\* Until a stale edit hits it, the bill and its shares are worth the charge.
Priced == Bill \notin raced => Charged(book.rows) = charge

LEMMA PricedStarts ==
  LendsInit => Priced
BY ReceivableCharged, LendingCharged, RepaidCharged DEF LendsInit, Priced

LEMMA PricedStep ==
  ASSUME LendsInv, Priced, [LendsNext]_lendVars
  PROVE  Priced'
<1> SUFFICES ASSUME Bill \notin raced'
             PROVE  Charged(book'.rows) = charge'
  BY DEF Priced
<1>1. raced \subseteq raced'
  <2>1. CASE UNCHANGED lendVars
    BY <2>1 DEF lendVars
  <2>2. CASE LendsNext
    BY <2>2 DEF LendsNext, SplitBill, CreateLend, UpdateLend, DeleteLend, Unsettle, DeleteTransaction, AtOnce,
       ReadBill, ReadPin, ReadSettlement, ReadOwed, ReadRoom, ReadTransaction, Opens, Rollback,
       MarkPaidFor, SettleWith, SetSettlementLend, Forgive, EditAdjustment, WriteTransaction
  <2> QED
    BY <2>1, <2>2
<1>2. Charged(book.rows) = charge /\ Bill \notin raced
  BY <1>1 DEF Priced
<1>3. CASE SplitBill \/ CreateLend \/ UpdateLend \/ DeleteLend \/ Unsettle
  <2>1. charge' = charge
    BY <1>3 DEF SplitBill, CreateLend, UpdateLend, DeleteLend, Unsettle, AtOnce
  <2>2. Charged(book'.rows) = Charged(book.rows)
    BY <1>2, <1>3, SplitBillCharged, CreateLendCharged, UpdateLendCharged, DeleteLendCharged, UnsettleCharged
  <2> QED
    BY <1>2, <2>1, <2>2
<1>4. CASE DeleteTransaction
  BY <1>2, <1>4, DeleteTransactionCharged
<1>5. ASSUME NEW e \in Editors, WriteTransaction(e)
      PROVE  Charged(book'.rows) = charge'
  BY <1>2, <1>5, WriteTransactionCharged
<1>6. ASSUME NEW e \in Editors,
             MarkPaidFor(e) \/ SettleWith(e) \/ SetSettlementLend(e) \/ Forgive(e) \/ EditAdjustment(e)
      PROVE  Charged(book'.rows) = charge'
  <2>1. charge' = charge
    BY <1>6 DEF MarkPaidFor, SettleWith, SetSettlementLend, Forgive, EditAdjustment
  <2>2. Charged(book'.rows) = Charged(book.rows)
    BY <1>6, MarkPaidForCharged, SettleWithCharged, SetSettlementLendCharged, AdjustmentsCharged
  <2> QED
    BY <1>2, <2>1, <2>2
<1>7. ASSUME book' = book, charge' = charge
      PROVE  Charged(book'.rows) = charge'
  BY <1>2, <1>7
<1>8. CASE UNCHANGED lendVars
  BY <1>7, <1>8 DEF lendVars
<1>9. CASE LendsNext
  BY <1>3, <1>4, <1>5, <1>6, <1>7, <1>9 DEF LendsNext, ReadBill, ReadPin, ReadSettlement, ReadOwed, ReadRoom, ReadTransaction,
     Opens, Rollback
<1> QED
  BY <1>8, <1>9

LEMMA PricedWhole ==
  LendsInv /\ Priced => ChargeWhole
<1> SUFFICES ASSUME LendsInv, Priced, Bill \notin raced
             PROVE  SumOf(book, Cuts(book) \cup {t \in {Bill} : book.rows[t] # None}) = charge
  BY DEF ChargeWhole
<1>1. PICK b, T : b = book /\ T = Cuts(book) \cup {t \in {Bill} : book.rows[t] # None}
  OBVIOUS
<1>2. PICK rows : rows = b.rows
  OBVIOUS
<1>3. rows \in [Slots -> {None} \cup RowSet]
  BY <1>1, <1>2, GoodRows DEF LendsInv
<1>4. T = {t \in Slots : t > 5 /\ rows[t] # None} \cup {t \in {Bill} : rows[t] # None}
  BY <1>1, <1>2 DEF Cuts
<1>5. SumAmounts(rows, T) = Charged(rows)
  BY <1>3, <1>4, ChargedIs
<1>6. SumOf(b, T) = SumAmounts(rows, T)
  BY <1>2 DEF SumOf, SumAmounts
<1>7. SumOf(book, T) = charge
  BY <1>1, <1>2, <1>5, <1>6 DEF Priced
<1> QED
  BY <1>1, <1>7

\* The one lend of a row.
LEMMA OneOfRow ==
  ASSUME NEW lends, NEW t, NEW l \in LendIds, On(lends, l, t), \A k \in LendIds : On(lends, k, t) => k = l
  PROVE  Cardinality({k \in LendIds : lends[k] # None /\ lends[k].txn = t}) = 1
<1>1. {k \in LendIds : lends[k] # None /\ lends[k].txn = t} = {l}
  BY DEF On
<1> QED
  BY <1>1, FS_Singleton

LEMMA RowsMatch ==
  ASSUME NEW b, NEW r, Good(b, r), NEW hurt, hurt = IF Bill \in r THEN {Bill} \cup {t \in Slots : t > 5} ELSE {}
  PROVE  /\ \A l \in LendIds : b.lends[l] # None =>
              /\ b.rows[b.lends[l].txn] # None
              /\ b.lends[l].txn \notin hurt =>
                   /\ b.rows[b.lends[l].txn] = [type |-> "lend", amount |-> b.lends[l].principal, day |-> b.lends[l].day]
                   /\ b.lends[l].txn = Bill => Cuts(b) = {}
                   /\ b.lends[l].txn \in Cuts(b) => b.lends[l].day = b.rows[Bill].day
         /\ \A t \in Slots \ hurt : b.rows[t] # None /\ b.rows[t].type = "lend" => \E l \in LendIds :
              On(b.lends, l, t) /\ \A k \in LendIds : On(b.lends, k, t) => k = l
<1>1. Sound(b.rows, b.lends, b.settled, r)
  BY DEF Good, SoundBook
<1>2. PICK rows, lends : rows = b.rows /\ lends = b.lends
  OBVIOUS
<1>3. /\ rows \in [Slots -> {None} \cup RowSet] /\ lends \in [LendIds -> {None} \cup LendSet]
      /\ ShareRows(rows, lends) /\ CashRow(rows, lends) /\ BillRow(rows, lends, r) /\ PaidRows(rows, lends, b.settled, r)
  BY <1>1, <1>2 DEF Sound, Kinds
<1>4. /\ LendIds = Shares \cup {CashLend} /\ Bill \in Slots /\ CashOut \in Slots /\ CashOut # Bill /\ Credit # CashOut
      /\ \A k \in Shares : Cut(k) \in Slots /\ Cut(k) > 5 /\ Cut(k) # CashOut /\ Cut(k) # Bill
      /\ \A k, l \in Shares : Cut(k) = Cut(l) => k = l
      /\ ~ (CashOut > 5) /\ ~ (Bill > 5)
      /\ \A t \in Slots : t \in {Bill, CashOut, Credit} \cup Adjustments \/ \E k \in Shares : t = Cut(k)
      /\ \A t \in Slots : t > 5 <=> \E k \in Shares : t = Cut(k)
  BY SlotFacts DEF CashOut, Bill
<1>5. ASSUME NEW l \in Shares, lends[l] # None
      PROVE  /\ rows[lends[l].txn] # None
             /\ lends[l].txn \notin hurt =>
                   /\ rows[lends[l].txn] = LendRow(lends[l])
                   /\ lends[l].txn = Bill => Cuts(b) = {}
                   /\ lends[l].txn \in Cuts(b) => lends[l].day = rows[Bill].day
  <2>1. lends[l].txn \in {Bill, Cut(l)} /\ rows[Bill] # None /\ (lends[l].txn = Cut(l) => rows[Cut(l)] # None)
    BY <1>3, <1>5 DEF ShareRows, On
  <2>2. lends[l].txn \notin hurt => Bill \notin r
    BY <1>4, <2>1
  <2>3. Bill \notin r => rows[lends[l].txn] = LendRow(lends[l]) /\ (lends[l].txn = Cut(l) => lends[l].day = rows[Bill].day)
    BY <1>3, <1>5 DEF BillRow
  <2>4. ASSUME lends[l].txn = Bill, Bill \notin r
        PROVE  Cuts(b) = {}
    <3>1. rows[Cut(l)] = None /\ \A k \in Shares : k # l => lends[k] = None
      BY <1>1, <1>2, <1>5, <2>4, OneBill
    <3>2. \A k \in Shares : k # l => rows[Cut(k)] = None
      BY <1>3, <3>1 DEF ShareRows, On
    <3>3. \A t \in Slots : t > 5 => rows[t] = None
      BY <1>4, <3>1, <3>2
    <3> QED
      BY <1>2, <3>3 DEF Cuts
  <2>5. lends[l].txn \in Cuts(b) => lends[l].txn = Cut(l)
    BY <1>4, <2>1 DEF Cuts
  <2> QED
    BY <2>1, <2>2, <2>3, <2>4, <2>5
<1>6. ASSUME lends[CashLend] # None
      PROVE  lends[CashLend].txn = CashOut /\ rows[CashOut] = LendRow(lends[CashLend]) /\ rows[CashOut] # None
  <2>1. lends[CashLend].txn = CashOut /\ rows[CashOut] = LendRow(lends[CashLend])
    BY <1>3, <1>6 DEF CashRow
  <2>2. lends[CashLend] \in LendSet
    BY <1>3, <1>4, <1>6
  <2>3. LendRow(lends[CashLend]) \in RowSet
    BY <2>2 DEF LendRow, LendSet, RowSet, RowTypes
  <2> QED
    BY <2>1, <2>3, NoneIsNoRow
<1>7. ASSUME NEW t \in Slots \ hurt, rows[t] # None, rows[t].type = "lend"
      PROVE  \E l \in LendIds : On(lends, l, t) /\ \A k \in LendIds : On(lends, k, t) => k = l
  <2>1. CASE t = CashOut
    <3>1. On(lends, CashLend, t)
      BY <1>3, <1>7, <2>1, <1>6 DEF CashRow, On
    <3>2. \A k \in Shares : ~On(lends, k, t)
      BY <1>3, <1>4, <2>1 DEF ShareRows, On
    <3> QED
      BY <1>4, <3>1, <3>2
  <2>2. CASE t = Bill
    <3>1. Bill \notin r
      BY <2>2, <1>7
    <3>2. /\ \A l, k \in Shares : On(lends, l, Bill) /\ On(lends, k, Bill) => l = k
          /\ \E l \in Shares : On(lends, l, Bill)
      BY <1>3, <1>7, <2>2, <3>1 DEF BillRow
    <3>3. ~On(lends, CashLend, Bill)
      BY <1>3, <1>4 DEF CashRow, On
    <3> QED
      BY <1>4, <2>2, <3>2, <3>3
  <2>3. ASSUME NEW l \in Shares, t = Cut(l)
        PROVE  \E m \in LendIds : On(lends, m, t) /\ \A k \in LendIds : On(lends, k, t) => k = m
    <3>1. On(lends, l, t)
      BY <1>3, <1>7, <2>3 DEF ShareRows
    <3>2. \A k \in Shares : On(lends, k, t) => k = l
      BY <1>3, <1>4, <2>3 DEF ShareRows, On
    <3>3. ~On(lends, CashLend, t)
      BY <1>3, <1>4, <2>3 DEF CashRow, On
    <3> QED
      BY <1>4, <3>1, <3>2, <3>3
  <2>4. t # Credit /\ t \notin Adjustments
    <3>1. rows[t].type # "writeoff" /\ rows[t].type # "lend_repayment" /\ rows[t].type \notin Plain
      BY <1>7 DEF Plain
    <3> QED
      BY <1>3, <1>7, <3>1 DEF PaidRows
  <2> QED
    BY <1>4, <2>1, <2>2, <2>3, <2>4
<1>8. ASSUME NEW l \in LendIds, lends[l] # None
      PROVE  /\ rows[lends[l].txn] # None
             /\ lends[l].txn \notin hurt =>
                   /\ rows[lends[l].txn] = [type |-> "lend", amount |-> lends[l].principal, day |-> lends[l].day]
                   /\ lends[l].txn = Bill => Cuts(b) = {}
                   /\ lends[l].txn \in Cuts(b) => lends[l].day = rows[Bill].day
  <2>1. CASE l \in Shares
    BY <1>5, <1>8, <2>1 DEF LendRow
  <2>2. CASE l = CashLend
    <3>1. CashOut \notin Cuts(b)
      BY <1>4 DEF Cuts
    <3> QED
      BY <1>4, <1>6, <1>8, <2>2, <3>1 DEF LendRow
  <2> QED
    BY <1>4, <2>1, <2>2
<1> QED
  BY <1>2, <1>7, <1>8

LEMMA LendsMatch ==
  LendsInv => LendsMatchRows
<1> SUFFICES ASSUME LendsInv
             PROVE  LendsMatchRows
  OBVIOUS
<1>1. PICK b, r, hurt : b = book /\ r = raced /\ hurt = IF Bill \in raced THEN {Bill} \cup {t \in Slots : t > 5} ELSE {}
  OBVIOUS
<1>2. Good(b, r) /\ hurt = IF Bill \in r THEN {Bill} \cup {t \in Slots : t > 5} ELSE {}
  BY <1>1 DEF LendsInv
<1>5. \A t \in Slots \ hurt : b.rows[t] # None /\ b.rows[t].type = "lend" => \E l \in LendIds :
        On(b.lends, l, t) /\ \A k \in LendIds : On(b.lends, k, t) => k = l
  BY <1>2, RowsMatch
<1>3. ASSUME NEW t \in Slots \ hurt, b.rows[t] # None, b.rows[t].type = "lend"
      PROVE  Cardinality({l \in LendIds : b.lends[l] # None /\ b.lends[l].txn = t}) = 1
  <2>1. PICK l \in LendIds : On(b.lends, l, t) /\ \A k \in LendIds : On(b.lends, k, t) => k = l
    BY <1>3, <1>5
  <2> QED
    BY <2>1, OneOfRow
<1>4. \A l \in LendIds : b.lends[l] # None =>
              /\ b.rows[b.lends[l].txn] # None
              /\ b.lends[l].txn \notin hurt =>
                   /\ b.rows[b.lends[l].txn] = [type |-> "lend", amount |-> b.lends[l].principal, day |-> b.lends[l].day]
                   /\ b.lends[l].txn = Bill => Cuts(b) = {}
                   /\ b.lends[l].txn \in Cuts(b) => b.lends[l].day = b.rows[Bill].day
  BY <1>2, RowsMatch
<1> QED
  BY <1>1, <1>3, <1>4 DEF LendsMatchRows

\* The bill and the shares cut from it add up to what the user says it cost,
\* and every lend has its row (db/lends.go: SplitBill, MarkPaidFor,
\* UnmarkPaidFor, UpdateLend), through every interleaving of requests.
THEOREM BillsAddUp == LendsSpec => []BillAddsUp
<1>1. LendsInit => LendsInv /\ Priced
  BY LendsStarts, PricedStarts
<1>2. (LendsInv /\ Priced) /\ [LendsNext]_lendVars => (LendsInv /\ Priced)'
  BY LendsStep, PricedStep
<1>3. LendsInv /\ Priced => BillAddsUp
  BY PricedWhole, LendsMatch DEF BillAddsUp
<1> QED
  BY <1>1, <1>2, <1>3, PTL DEF LendsSpec

=============================================================================
