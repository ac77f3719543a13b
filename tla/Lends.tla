------------------------------- MODULE Lends -------------------------------
(***************************************************************************)
(* Shared bills, lends and paying back: db/lends.go under the requests of  *)
(* api/lends.go, api/lends_people.go and the assistant, and the edits of   *)
(* plain transactions (api/finance.go, ai/tools.go) that meet them.        *)
(*                                                                         *)
(* One account of one user.  book holds four tables: fin_transactions      *)
(* (rows), fin_lends (lends), fin_lend_settlements (settled, keyed by its  *)
(* transaction, which is unique) and fin_lend_repayments (covers, derived: *)
(* a settlement covers at most one lend).  Every request is one SQL        *)
(* transaction.  Where it locks what it read, it is one step; where it     *)
(* reads first and writes later without a lock, what it read waits in      *)
(* pending and anything may commit in between.                             *)
(***************************************************************************)
EXTENDS Integers, FiniteSetsExt

CONSTANTS
  People,       \* the people a bill is shared with, by normalised name
  Price,        \* largest amount of a bill or payment, in the smallest unit
  LastDay,      \* calendar days are 1..LastDay
  Editors,      \* requests that may be open at the same time
  MaxRequests,  \* bound: requests of one behaviour
  None          \* no such row

\* A missing row is no row.
ASSUME LendsAssumption ==
  /\ IsFiniteSet(People) /\ Price \in Nat /\ LastDay \in Nat
  /\ None \notin [type : {"expense", "income", "refund", "lend", "lend_repayment", "writeoff"},
                 amount : Nat, day : Nat]
  /\ None \notin [who : People, principal : Nat, txn : Nat, day : Nat]
  /\ None \notin [who : People, pin : Nat] \cup [lend : Nat, amount : Nat]

Bill == 1                       \* the expense that may be shared
CashOut == 2                    \* the transaction of a lend of money
Credit == 3                     \* money received
Adjustments == {4, 5}           \* forgiven amounts (writeoffs)
Cut(l) == 5 + l                 \* the split_of row of share l
Shares == 1..Cardinality(People)
CashLend == Cardinality(People) + 1
LendIds == Shares \cup {CashLend}
Slots == 1..(5 + Cardinality(People))
Days == 1..LastDay
Overall == 0                    \* the lend_id of a settlement toward the total
Idle == [kind |-> "idle"]

VARIABLES
  book,     \* the committed tables
  pending,  \* [Editors -> what an open request has read]
  left,     \* requests still to come
  charge,   \* history: what the user says the bill cost
  raced     \* history: rows written on the strength of a stale read

lendVars == <<book, pending, left, charge, raced>>

-----------------------------------------------------------------------------
(* What the tables say. *)

Lent(b, p) == {l \in LendIds : b.lends[l] # None /\ b.lends[l].who = p}
Payments(b, p) == {t \in Slots : b.settled[t] # None /\ b.settled[t].who = p}
Cuts(b) == {t \in Slots : t > 5 /\ b.rows[t] # None}
SumOf(b, T) == MapThenSumSet(LAMBDA t : b.rows[t].amount, T)
Owed(b, p) == MapThenSumSet(LAMBDA l : b.lends[l].principal, Lent(b, p))
              - SumOf(b, Payments(b, p))

\* Of the payments pinned to the same lend, those RebalanceLends takes first.
Before(b, t) ==
  {u \in Payments(b, b.settled[t].who) :
     /\ b.settled[u].pin = b.settled[t].pin
     /\ \/ b.rows[u].day < b.rows[t].day
        \/ b.rows[u].day = b.rows[t].day /\ u < t}

\* What payment t covers of the lend it is pinned to, oldest payment first;
\* a pin to someone else's lend counts toward the total, like no pin.
Cover(b, t) ==
  LET s == b.settled[t]
      room == b.lends[s.pin].principal
      rest == room - Min({room, SumOf(b, Before(b, t))})
  IN IF s.pin \in Lent(b, s.who) /\ rest > 0
     THEN [lend |-> s.pin, amount |-> Min({rest, b.rows[t].amount})] ELSE None

Rebalanced(b, P) ==
  [b EXCEPT !.covers = [t \in Slots |->
     IF \E p \in P : t \in Payments(b, p) THEN Cover(b, t) ELSE b.covers[t]]]

InOrderPinned(b, p) ==  \* mutant: payments toward the total are not looked at
  \A t \in Payments(b, p) :
    LET pin == b.settled[t].pin
    IN pin \in Lent(b, p) => b.rows[t].day >= b.lends[pin].day

\* CheckLendOrder: no payment before the lend it is toward, or, toward the
\* total, before the person's first lend.
InOrder(b, p) ==
  Lent(b, p) # {} => \A t \in Payments(b, p) :
    LET pin == b.settled[t].pin
    IN b.rows[t].day >= IF pin \in Lent(b, p) THEN b.lends[pin].day
                        ELSE Min({b.lends[l].day : l \in Lent(b, p)})

CommitsOne(b, P) ==  \* mutant: only one of the people concerned is rebalanced
  /\ \A p \in P : InOrder(b, p)
  /\ book' = Rebalanced(b, {CHOOSE p \in P : TRUE})

Commits(b, P) == /\ \A p \in P : InOrder(b, p)
                 /\ book' = Rebalanced(b, P)

-----------------------------------------------------------------------------
(* What a request does to the tables before it rebalances. *)

\* ON DELETE SET NULL of the pins, ON DELETE CASCADE of the covers.
Without(b, l) ==
  [b EXCEPT !.lends[l] = None,
            !.settled = [t \in Slots |-> IF @[t] # None /\ @[t].pin = l
                                         THEN [@[t] EXCEPT !.pin = Overall] ELSE @[t]],
            !.covers = [t \in Slots |-> IF @[t] # None /\ @[t].lend = l THEN None ELSE @[t]]]

FreeShare(b) == Min({l \in Shares : b.lends[l] = None})

\* MarkPaidFor without a share: the whole bill becomes p's lend.
Marked(b, p) ==
  [b EXCEPT !.rows[Bill].type = "lend",
            !.lends[FreeShare(b)] = [who |-> p, principal |-> b.rows[Bill].amount,
                                     txn |-> Bill, day |-> b.rows[Bill].day]]

BillPart(b, l) == IF b.lends[l].txn = Bill THEN 0 ELSE b.rows[Bill].amount
Total(b, l) == b.rows[b.lends[l].txn].amount + BillPart(b, l)
Others(b, l) == Cuts(b) \ {b.lends[l].txn} # {}

\* The share is all there is left of the bill: its row becomes the lend again
\* and the split row goes (a bill whose row is a lend already refuses, UNIQUE).
Whole(b, l) ==
  [b EXCEPT !.rows[Bill] = [@ EXCEPT !.type = "lend", !.amount = Total(b, l)],
            !.rows[Cut(l)] = None,
            !.lends[l] = [@ EXCEPT !.txn = Bill, !.principal = Total(b, l)]]

MovedKeepsPrincipal(b, l, share) ==  \* mutant: the lend keeps its old principal
  [b EXCEPT !.rows[Bill] = [@ EXCEPT !.type = IF b.lends[l].txn = Bill THEN "expense" ELSE b.rows[Bill].type,
                                     !.amount = Total(b, l) - share],
            !.rows[Cut(l)] = IF b.lends[l].txn = Bill
                             THEN [type |-> "lend", amount |-> share, day |-> b.rows[Bill].day]
                             ELSE [@ EXCEPT !.amount = share],
            !.lends[l] = [@ EXCEPT !.txn = Cut(l)]]

\* The line between the user's part and the share, cutting the share into a
\* row of its own when the bill's row is the lend.
Moved(b, l, share) ==
  [b EXCEPT !.rows[Bill] = [@ EXCEPT !.type = IF b.lends[l].txn = Bill THEN "expense" ELSE b.rows[Bill].type,
                                     !.amount = Total(b, l) - share],
            !.rows[Cut(l)] = IF b.lends[l].txn = Bill
                             THEN [type |-> "lend", amount |-> share, day |-> b.rows[Bill].day]
                             ELSE [@ EXCEPT !.amount = share],
            !.lends[l] = [@ EXCEPT !.txn = Cut(l), !.principal = share]]

CanShare(b, l, share) ==
  /\ l \in Shares /\ share \in 1..Total(b, l)
  /\ share = Total(b, l) /\ b.lends[l].txn # Bill /\ ~Others(b, l)
       => \A k \in Shares : b.lends[k] # None => b.lends[k].txn # Bill

Shared(b, l, share) ==
  IF share < Total(b, l) \/ (b.lends[l].txn # Bill /\ Others(b, l)) THEN Moved(b, l, share)
  ELSE IF b.lends[l].txn # Bill THEN Whole(b, l)
  ELSE b

\* SplitBill for several people, or for one more on a bill already split.
SplitAmong(b, ids, part) ==
  [b EXCEPT !.rows = [t \in Slots |->
                        IF t = Bill THEN [@[t] EXCEPT !.amount = b.rows[Bill].amount - MapThenSumSet(LAMBDA l : part[l], DOMAIN ids)]
                        ELSE IF \E l \in DOMAIN ids : t = Cut(l)
                             THEN [type |-> "lend", amount |-> part[t - 5], day |-> @[Bill].day]
                             ELSE @[t]],
            !.lends = [l \in LendIds |->
                         IF l \in DOMAIN ids
                         THEN [who |-> ids[l], principal |-> part[l], txn |-> Cut(l), day |-> b.rows[Bill].day]
                         ELSE @[l]]]

UnmarkedUnfolded(b, l) ==  \* mutant: the share is dropped, not folded back
  LET c == Without(b, l) t == b.lends[l].txn
  IN IF t = Bill THEN [c EXCEPT !.rows[Bill].type = "expense"] ELSE [c EXCEPT !.rows[t] = None]

\* UnmarkPaidFor: a split folds its share back into the bill.
Unmarked(b, l) ==
  LET c == Without(b, l) t == b.lends[l].txn
  IN IF t = Bill THEN [c EXCEPT !.rows[Bill].type = "expense"]
     ELSE [c EXCEPT !.rows[t] = None, !.rows[Bill].amount = @ + b.rows[t].amount]

Settled(b, t, p, pin) ==
  [b EXCEPT !.rows[t].type = "lend_repayment", !.settled[t] = [who |-> p, pin |-> pin]]

Unsettled(b, t) ==
  [b EXCEPT !.settled[t] = None, !.covers[t] = None,
            !.rows[t] = IF @.type = "writeoff" THEN None ELSE [@ EXCEPT !.type = "income"]]

\* A new borrower drops the pins; only a lend with a row of its own has a
\* date of its own.
Reassigned(b, l, p, amount, day) ==
  LET unpinned == IF b.lends[l].who = p THEN b.settled
                  ELSE [t \in Slots |-> IF b.settled[t] # None /\ b.settled[t].pin = l
                                        THEN [b.settled[t] EXCEPT !.pin = Overall] ELSE b.settled[t]]
      t == b.lends[l].txn
  IN IF t \in {Bill, CashOut}
     THEN [b EXCEPT !.settled = unpinned,
                    !.lends[l] = [@ EXCEPT !.who = p, !.principal = amount, !.day = day],
                    !.rows[t] = [@ EXCEPT !.amount = amount, !.day = day]]
     ELSE [b EXCEPT !.settled = unpinned, !.lends[l].who = p]

\* SyncSplit: the shares follow the bill's date.
Synced(b) ==
  [b EXCEPT !.rows = [t \in Slots |-> IF t \in Cuts(b) THEN [@[t] EXCEPT !.day = b.rows[Bill].day] ELSE @[t]],
            !.lends = [l \in LendIds |-> IF @[l] # None /\ @[l].txn \in Cuts(b)
                                         THEN [@[l] EXCEPT !.day = b.rows[Bill].day] ELSE @[l]]]
SharedWith(b) == {p \in People : \E l \in Lent(b, p) : b.lends[l].txn \in Cuts(b)}

-----------------------------------------------------------------------------
(* Requests that lock what they decide on: one step each. *)

Starts == /\ left > 0
          /\ left' = left - 1

AtOnce == /\ Starts
          /\ UNCHANGED <<pending, charge, raced>>

\* The other people of a split bill are read after its row is locked.
SplitBill ==
  /\ AtOnce
  /\ book.rows[Bill] # None /\ book.rows[Bill].type = "expense"
  /\ \E ids \in SUBSET {l \in Shares : book.lends[l] = None} :
       \E own \in [ids -> People \ SharedWith(book)] :
         LET new == {own[l] : l \in ids}
         IN /\ Cardinality(new) = Cardinality(ids)
            /\ Cardinality(new) > 1 \/ (ids # {} /\ Cuts(book) # {})
            /\ \E part \in [ids -> 1..Price] :
                 /\ MapThenSumSet(LAMBDA l : part[l], ids) <= book.rows[Bill].amount
                 /\ Commits(SplitAmong(book, own, part), new)

CreateLend ==
  /\ AtOnce
  /\ book.lends[CashLend] = None
  /\ \E p \in People, amount \in 1..Price, day \in Days :
       Commits([book EXCEPT !.rows[CashOut] = [type |-> "lend", amount |-> amount, day |-> day],
                            !.lends[CashLend] = [who |-> p, principal |-> amount, txn |-> CashOut, day |-> day]],
               {p})

\* A paid-for lend's amount is the borrower's share.
UpdateLend ==
  /\ AtOnce
  /\ \E l \in LendIds : \E p \in People, amount \in 1..Price, day \in Days :
       /\ book.lends[l] # None
       /\ LET old == book.lends[l]
              b == IF l = CashLend \/ amount = old.principal THEN book ELSE Shared(book, l, amount)
          IN /\ l = CashLend \/ amount = old.principal \/ CanShare(book, l, amount)
             /\ Commits(Reassigned(b, l, p, amount, day), {old.who, p})

DeleteLend ==
  /\ AtOnce
  /\ \E l \in LendIds :
       /\ book.lends[l] # None
       /\ Commits(IF l = CashLend THEN [Without(book, l) EXCEPT !.rows[CashOut] = None] ELSE Unmarked(book, l),
                  {book.lends[l].who})

Unsettle ==
  /\ AtOnce
  /\ \E t \in Slots : /\ book.settled[t] # None
                      /\ Commits(Unsettled(book, t), {book.settled[t].who})

\* Foreign keys refuse what the handler's own checks might have missed.
DeleteTransaction ==
  /\ Starts
  /\ UNCHANGED <<pending, raced>>
  /\ \E t \in {Bill, Credit} :
       /\ book.rows[t] # None /\ book.settled[t] = None
       /\ \A l \in LendIds : book.lends[l] # None => book.lends[l].txn # t
       /\ t = Bill => Cuts(book) = {}
       /\ book' = [book EXCEPT !.rows[t] = None]
       /\ charge' = IF t = Bill THEN 0 ELSE charge

-----------------------------------------------------------------------------
(* Requests that read, then write. *)

Opens(r, what) == /\ Starts
                  /\ pending[r] = Idle
                  /\ pending' = [pending EXCEPT ![r] = what]
                  /\ UNCHANGED <<book, charge, raced>>

Ends(r) == /\ pending' = [pending EXCEPT ![r] = Idle]
           /\ UNCHANGED left

\* A refusal, a deadlock, a lost connection: everything is rolled back.
Rollback(r) == /\ pending[r] # Idle
               /\ Ends(r)
               /\ UNCHANGED <<book, charge, raced>>

\* MarkPaidFor selects the row FOR UPDATE.  After a wait for its lock the row
\* is read again, but not the subquery that looks for split rows.
ReadBill(r) ==
  /\ book.rows[Bill] # None
  /\ Opens(r, [kind |-> "mark", split |-> Cuts(book) # {}])

MarkPaidFor(r) ==
  /\ pending[r].kind = "mark"
  /\ Ends(r)
  /\ ~pending[r].split
  /\ book.rows[Bill] # None /\ book.rows[Bill].type = "expense" /\ book.rows[Bill].amount > 0
  /\ \E l \in Shares : book.lends[l] = None
  /\ \E p \in People, share \in 1..book.rows[Bill].amount :
       Commits(Shared(Marked(book, p), FreeShare(book), share), {p})
  /\ raced' = IF Cuts(book) # {} THEN raced \cup {Bill} ELSE raced
  /\ UNCHANGED charge

\* checkPin does not lock the lend it finds: by the time the settlement points
\* to it, it may be someone else's.  That it still exists is a foreign key.
Pins(p) == Lent(book, p) \cup {Overall}
CanPin(pin) == pin # Overall => book.lends[pin] # None

\* The rows an open request will still write: their ids are not given again.
Awaited == {pending[r].row : r \in {e \in Editors : pending[e].kind \in {"adjust", "edit", "repin"}}}

ReadPin(r) ==
  \E p \in People : \E pin \in Pins(p) :
    /\ Lent(book, p) # {}
    /\ Opens(r, [kind |-> "settle", who |-> p, pin |-> pin])

\* A transaction settles once: transaction_id is UNIQUE.
SettleWith(r) ==
  /\ pending[r].kind = "settle"
  /\ Ends(r)
  /\ CanPin(pending[r].pin)
  /\ \E t \in {Bill, Credit} :
       /\ book.rows[t] # None /\ book.rows[t].type = "income"
       /\ book.settled[t] = None
       /\ Commits(Settled(book, t, pending[r].who, pending[r].pin), {pending[r].who})
  /\ UNCHANGED <<charge, raced>>

ReadSettlement(r) ==
  \E t \in Slots :
    /\ book.settled[t] # None
    /\ \E pin \in Pins(book.settled[t].who) \ {book.settled[t].pin} :
         Opens(r, [kind |-> "repin", row |-> t, who |-> book.settled[t].who, pin |-> pin])

SetSettlementLend(r) ==
  /\ pending[r].kind = "repin"
  /\ Ends(r)
  /\ CanPin(pending[r].pin)
  /\ book.settled[pending[r].row] # None /\ book.settled[pending[r].row].who = pending[r].who
  /\ Commits([book EXCEPT !.settled[pending[r].row].pin = pending[r].pin], {pending[r].who})
  /\ UNCHANGED <<charge, raced>>

\* What a person owes, and whose lend the amount goes toward.
ReadOwed(r) ==
  \E p \in People : \E pin \in Pins(p) :
    /\ Lent(book, p) # {} /\ Owed(book, p) > 0
    /\ Opens(r, [kind |-> "forgive", who |-> p, owed |-> Owed(book, p), pin |-> pin])

ForgiveMore(r) ==  \* mutant: the amount is not held against what is owed
  /\ pending[r].kind = "forgive"
  /\ Ends(r)
  /\ CanPin(pending[r].pin)
  /\ \E amount \in 1..Price, day \in Days : \E t \in Adjustments \ Awaited :
       /\ book.rows[t] = None
       /\ Commits([book EXCEPT !.rows[t] = [type |-> "writeoff", amount |-> amount, day |-> day],
                               !.settled[t] = [who |-> pending[r].who, pin |-> pending[r].pin]],
                  {pending[r].who})
  /\ UNCHANGED <<charge, raced>>

Forgive(r) ==
  /\ pending[r].kind = "forgive"
  /\ Ends(r)
  /\ CanPin(pending[r].pin)
  /\ \E amount \in 1..pending[r].owed, day \in Days : \E t \in Adjustments \ Awaited :
       /\ book.rows[t] = None
       /\ Commits([book EXCEPT !.rows[t] = [type |-> "writeoff", amount |-> amount, day |-> day],
                               !.settled[t] = [who |-> pending[r].who, pin |-> pending[r].pin]],
                  {pending[r].who})
  /\ UNCHANGED <<charge, raced>>

ReadRoom(r) ==
  \E t \in Adjustments :
    /\ book.settled[t] # None
    /\ LET p == book.settled[t].who
       IN Opens(r, [kind |-> "adjust", row |-> t, who |-> p, owed |-> Owed(book, p) + book.rows[t].amount])

EditAdjustment(r) ==
  /\ pending[r].kind = "adjust"
  /\ Ends(r)
  /\ book.rows[pending[r].row] # None
  /\ LET t == pending[r].row
         row == book.rows[t]
     IN \E new \in {[row EXCEPT !.amount = a] : a \in 1..pending[r].owed}
                   \cup {[row EXCEPT !.day = d] : d \in Days} :
          Commits([book EXCEPT !.rows[t] = new], {pending[r].who})
  /\ UNCHANGED <<charge, raced>>

Plain == {"expense", "income", "refund"}

\* updateTransaction and update_transaction look at the row's type before
\* they change the row; the assistant's tool also looks for split rows then.
ReadTransaction(r) ==
  \E t \in {Bill, Credit}, tool \in BOOLEAN :
    /\ book.rows[t] # None /\ book.rows[t].type \in Plain
    /\ Opens(r, [kind |-> "edit", row |-> t, type |-> book.rows[t].type, tool |-> tool,
                 split |-> t = Bill /\ Cuts(book) # {}])

Retypes(read) ==
  IF read.split THEN {}
  ELSE CASE read.type = "expense" -> IF read.tool THEN {"income"} ELSE {}
         [] read.type = "refund"  -> {"income"}
         [] read.type = "income"  -> IF read.tool THEN {"refund", "expense"} ELSE {"refund"}

Edits(read, row) ==
  {[row EXCEPT !.amount = a] : a \in IF read.split /\ ~read.tool THEN 0..Price ELSE 1..Price}
  \cup {[row EXCEPT !.day = d] : d \in Days}
  \cup {[row EXCEPT !.type = ty] : ty \in Retypes(read)}

WriteTransaction(r) ==
  /\ pending[r].kind = "edit"
  /\ Ends(r)
  /\ LET read == pending[r]
         t == read.row
         sync == t = Bill /\ (read.tool => read.split)
     IN /\ book.rows[t] # None
        /\ \E new \in Edits(read, book.rows[t]) :
             LET b == [book EXCEPT !.rows[t] = new]
                 c == IF sync THEN Synced(b) ELSE b
             IN /\ sync => \A p \in SharedWith(b) : InOrder(c, p)
                /\ book' = c
                /\ charge' = IF t = Bill THEN charge + (new.amount - book.rows[t].amount) ELSE charge
        /\ raced' = IF book.rows[t].type # read.type \/ (t = Bill /\ read.split # (Cuts(book) # {}))
                    THEN raced \cup {t} ELSE raced

-----------------------------------------------------------------------------

NoRows == [t \in Slots |-> None]

Receipts(amount, day) ==
  [rows |-> [t \in Slots |-> CASE t = Bill -> [type |-> "expense", amount |-> Price, day |-> 1]
                               [] t = Credit -> [type |-> "income", amount |-> amount, day |-> day]
                               [] OTHER -> None],
   lends |-> [l \in LendIds |-> None], settled |-> NoRows, covers |-> NoRows]

\* A bill and a credit, and what one or two requests can have made of them:
\* behind two of them, one request less is to come.
Receivable == {Receipts(a, d) : a \in 1..Price, d \in Days}
Lending == {Shared(Marked(b, p), 1, s) : b \in Receivable, p \in People, s \in 1..Price}
Repaid == {Rebalanced(Settled(b, Credit, b.lends[1].who, pin), People) : b \in Lending, pin \in {1, Overall}}

LendsInit ==
  /\ \/ book \in Receivable \cup Lending /\ left = MaxRequests
     \/ book \in Repaid /\ left = MaxRequests - 1
  /\ pending = [r \in Editors |-> Idle]
  /\ charge = Price
  /\ raced = {}

LendsNext ==
  \/ SplitBill \/ CreateLend \/ UpdateLend \/ DeleteLend
  \/ Unsettle \/ DeleteTransaction
  \/ left > 0 /\ \E r \in {e \in Editors : pending[e] = Idle} :
       ReadBill(r) \/ ReadPin(r) \/ ReadSettlement(r) \/ ReadOwed(r) \/ ReadRoom(r) \/ ReadTransaction(r)
  \/ \E r \in Editors :
       \/ MarkPaidFor(r) \/ SettleWith(r) \/ SetSettlementLend(r)
       \/ Forgive(r) \/ EditAdjustment(r) \/ WriteTransaction(r)
       \/ Rollback(r)

LendsSpec == LendsInit /\ [][LendsNext]_lendVars

-----------------------------------------------------------------------------

\* The bill and the shares cut from it add up to the charge through every
\* split, share, mark and undo, so the account and its statement stay whole:
\* only an edit of the bill's own amount, or its deletion, changes what it cost
\* (unless the edit wrote over a row that had become a lend since it was read).
ChargeWhole ==
  Bill \notin raced => SumOf(book, Cuts(book) \cup {t \in {Bill} : book.rows[t] # None}) = charge

\* A lend and the transaction that carries it agree on kind, amount and date,
\* every lend row belongs to one lend, and a bill that others share is not a
\* lend itself, except where an edit or a mark wrote over a row that had
\* changed since it was read.
LendsMatchRows ==
  LET hurt == IF Bill \in raced THEN {Bill} \cup {t \in Slots : t > 5} ELSE {}
  IN /\ \A l \in LendIds : book.lends[l] # None =>
          LET lend == book.lends[l]
          IN /\ book.rows[lend.txn] # None
             /\ lend.txn \notin hurt =>
                  /\ book.rows[lend.txn] = [type |-> "lend", amount |-> lend.principal, day |-> lend.day]
                  /\ lend.txn = Bill => Cuts(book) = {}
                  /\ lend.txn \in Cuts(book) => lend.day = book.rows[Bill].day
     /\ \A t \in Slots \ hurt : book.rows[t] # None /\ book.rows[t].type = "lend" =>
          Cardinality({l \in LendIds : book.lends[l] # None /\ book.lends[l].txn = t}) = 1

\* The repayments shown on each lend are never stale: they are what the pins,
\* payments, dates and principals of the person say now, and never more than
\* the principal or the payment, unless a stale edit hit one of the payments.
CoversCurrent ==
  \A p \in People :
    Payments(book, p) \cap raced = {} =>
      /\ \A t \in Payments(book, p) : book.covers[t] = Cover(book, t)
      /\ \A l \in Lent(book, p) :
           MapThenSumSet(LAMBDA t : book.covers[t].amount,
                         {t \in Slots : book.covers[t] # None /\ book.covers[t].lend = l})
             <= book.lends[l].principal

\* No payment or forgiven amount is dated before the lend it pays, whichever
\* of the two, or of the bills behind them, is edited, re-pinned or deleted,
\* unless a stale edit moved the payment itself.
PaidAfterLent ==
  \A p \in People : Lent(book, p) # {} =>
    \A t \in Payments(book, p) \ raced :
      \E l \in Lent(book, p) : /\ book.settled[t].pin \in Lent(book, p) => l = book.settled[t].pin
                               /\ book.lends[l].day <= book.rows[t].day

\* Forgiving, or raising what was forgiven, leaves a person owing money to the
\* user, never the other way round, unless they paid or their lends shrank
\* after the request read what they owe.
ForgivenIsOwed ==
  [][\A r \in Editors :
       pending[r].kind \in {"forgive", "adjust"} /\ pending'[r] = Idle =>
         LET p == pending[r].who
             now == Owed(book, p) + (IF pending[r].kind = "adjust" /\ book.rows[pending[r].row] # None
                                     THEN book.rows[pending[r].row].amount ELSE 0)
         IN Owed(book', p) < Owed(book, p) => Owed(book', p) >= 0 \/ now < pending[r].owed]_lendVars

\* A bill, its shares and the lends of the borrowers always add up.
BillAddsUp == ChargeWhole /\ LendsMatchRows

\* What a payment covers is current, and nothing is paid before it was lent.
PaidInOrder == CoversCurrent /\ PaidAfterLent

=============================================================================
