------------------------------- MODULE Ledger -------------------------------
(***************************************************************************)
(* Accounts, plain transactions, transfers, slates and card statements of  *)
(* one user: api/finance.go and api/slates.go, with the assistant's tools  *)
(* on the same rows (ai/tools.go, ai/tools_slates.go).                     *)
(*                                                                         *)
(* What a handler writes in one SQL transaction, or in one statement, is   *)
(* one step; what it read before that waits in desk, and anything may      *)
(* commit in between.  An expense stands for a lend too and an income for  *)
(* a refund or a payment back: balances and statements treat them alike.   *)
(***************************************************************************)
EXTENDS Integers, Sequences, FiniteSetsExt

CONSTANTS
  Bank, Card,   \* the accounts; statements are the card's
  PlainLife, Trip,  \* the slates: normal life, and an outlier the user named
  MaxAmount,    \* largest amount of a transaction
  LastDate,     \* calendar dates are 1..LastDate
  Clerks,       \* requests that may be open at the same time
  MaxRows,      \* bound: transactions ever inserted
  MaxOrders     \* bound: requests of one behaviour

ASSUME LedgerAssumption == MaxRows \in Nat /\ MaxRows >= 2 /\ LastDate \in Nat /\ MaxAmount \in Nat

Accounts == {Bank, Card}
RowIds == 1..MaxRows
Statements == 1..2
Dates == 1..LastDate
Amounts == 1..MaxAmount
Types == {"expense", "income", "transfer_out", "transfer_in"}
NoRow == [type |-> "none"]  \* no such row
Unread == [step |-> "idle"]

VARIABLES
  accounts,    \* the accounts that exist
  opening,     \* opening balance of the card
  txns,        \* fin_transactions
  given,       \* ids already given
  slates,      \* [{PlainLife, Trip} -> "open", "archived" or "gone"]
  statements,  \* fin_cc_statements of the card
  desk,        \* [Clerks -> what an open request has read]
  recent,      \* rows created in the last five minutes
  orders,      \* requests still to come
  history      \* what the properties remember, see Untold

ledgerVars == <<accounts, opening, txns, given, slates, statements, desk, recent, orders, history>>

\* bent: rows changed by the assistant; posted: rows of unforced requests that
\* are as they were sent; payments: how often a statement's payment was posted;
\* reopened: statements unmarked, or read as unpaid by two requests at once;
\* quiet: no row was written into a closed cycle, no statement corrected.
Untold == [bent |-> {}, posted |-> {}, payments |-> [s \in Statements |-> 0],
           reopened |-> {}, quiet |-> TRUE]

-----------------------------------------------------------------------------

Rows == {t \in RowIds : txns[t] # NoRow}
SumRows(T) == MapThenSumSet(LAMBDA t : txns[t].amount, T)
OnCard(types, from, to) ==
  {t \in Rows : txns[t].account = Card /\ txns[t].type \in types
                /\ txns[t].date > from /\ txns[t].date <= to}
Closed == {s \in Statements : statements[s] # NoRow}
Computing == {c \in Clerks : desk[c].step \in {"charges", "totals"}}

\* A row of the card dated inside a cycle that is closed, or being closed.
Late(rows) ==
  \E row \in rows : row.account = Card
    /\ \/ \E s \in Closed : row.date <= statements[s].date
       \/ \E c \in Computing : row.date <= desk[c].date

\* What every write of rows remembers: the rows it changes, before and after.
Remembers(changed, after, others) ==
  history' = [others EXCEPT !.posted = @ \ changed,
              !.quiet = @ /\ ~Late({txns[t] : t \in changed} \cup after)]

Enters(c) == /\ desk[c] = Unread
             /\ orders > 0
             /\ orders' = orders - 1
Leaves(c) == /\ desk' = [desk EXCEPT ![c] = Unread]
               /\ UNCHANGED orders
InOneStep(c) == Enters(c) /\ UNCHANGED desk

\* The foreign keys of a new row; ids are never given again.
Inserted(rows) ==
  /\ \A row \in {rows[i] : i \in DOMAIN rows} : row.account \in accounts /\ slates[row.slate] # "gone"
  /\ given + Len(rows) <= MaxRows
  /\ given' = given + Len(rows)
  /\ txns' = [t \in RowIds |-> IF t \in given + 1..given + Len(rows) THEN rows[t - given] ELSE txns[t]]

Row(account, type, amount, date, slate, pair) ==
  [account |-> account, type |-> type, amount |-> amount, date |-> date, slate |-> slate, pair |-> pair]

Legs(from, to, amount, date, slate) ==
  <<Row(from, "transfer_out", amount, date, slate, given + 2),
    Row(to, "transfer_in", amount, date, slate, given + 1)>>

-----------------------------------------------------------------------------
(* Transactions. *)

\* resolveSlateID: an open slate, else PlainLife, looked up before any transaction.
ResolveSlate(c) ==
  /\ Enters(c)
  /\ \E s \in {PlainLife, Trip} :
       /\ slates[s] = "open"
       /\ desk' = [desk EXCEPT ![c] = [step |-> "resolved", slate |-> s]]
  /\ UNCHANGED <<accounts, opening, txns, given, slates, statements, recent, history>>

Matches(t, draft) == [account |-> txns[t].account, type |-> txns[t].type,
                   amount |-> txns[t].amount, date |-> txns[t].date] = draft

\* Bound: new rows are of amount 1; edits reach MaxAmount.
Drafts == [account : accounts, type : {"expense", "income"}, amount : {1}, date : Dates]

CheckDuplicateUnlocked(c) ==  \* mutant: the advisory lock is not taken
  /\ desk[c].step = "resolved"
  /\ \E draft \in Drafts :
       desk' = [desk EXCEPT ![c] = IF \E t \in recent \cap Rows : Matches(t, draft) THEN Unread
                                   ELSE [step |-> "checked", slate |-> desk[c].slate, draft |-> draft]]
  /\ UNCHANGED <<accounts, opening, txns, given, slates, statements, recent, orders, history>>

\* The check for a twin holds the user's create lock until the insert commits.
CheckDuplicate(c) ==
  /\ desk[c].step = "resolved"
  /\ \A d \in Clerks : desk[d].step # "checked"
  /\ \E draft \in Drafts :
       desk' = [desk EXCEPT ![c] = IF \E t \in recent \cap Rows : Matches(t, draft) THEN Unread
                                   ELSE [step |-> "checked", slate |-> desk[c].slate, draft |-> draft]]
  /\ UNCHANGED <<accounts, opening, txns, given, slates, statements, recent, orders, history>>

\* Inserting a draft: a user's request that was checked, or one that is not
\* checked because it says so (force) or comes from the assistant.
Record(c) ==
  /\ desk[c].step \in {"resolved", "checked"}
  /\ Leaves(c)
  /\ \E draft \in IF desk[c].step = "checked" THEN {desk[c].draft} ELSE Drafts :
       LET row == Row(draft.account, draft.type, draft.amount, draft.date, desk[c].slate, 0)
       IN /\ Inserted(<<row>>)
          /\ recent' = recent \cup {given + 1}
          /\ Remembers({}, {row}, IF desk[c].step = "checked"
                                  THEN [history EXCEPT !.posted = @ \cup {given + 1}] ELSE history)
  /\ UNCHANGED <<accounts, opening, slates, statements>>

RecordTransfer(c) ==
  /\ desk[c].step = "resolved"
  /\ Leaves(c)
  /\ \E from \in Accounts, date \in Dates : \E to \in Accounts \ {from} :
       LET legs == Legs(from, to, 1, date, desk[c].slate)
       IN /\ Inserted(legs)
          /\ Remembers({}, {legs[1], legs[2]}, history)
  /\ recent' = recent \cup {given + 1, given + 2}
  /\ UNCHANGED <<accounts, opening, slates, statements>>

\* One field of a row changed; an edit that names no slate leaves it.
Changes(t, slate) ==
  {[txns[t] EXCEPT !.account = a] : a \in accounts} \cup {[txns[t] EXCEPT !.amount = m] : m \in Amounts}
  \cup {[txns[t] EXCEPT !.date = d] : d \in Dates} \cup {[txns[t] EXCEPT !.slate = slate]}

Paired(t) == {u \in Rows : txns[u].pair = t}

EditOneLeg(c) ==  \* mutant: the other leg of a transfer is forgotten
  /\ desk[c].step = "resolved"
  /\ Leaves(c)
  /\ \E t \in Rows : \E new \in Changes(t, desk[c].slate) \ {txns[t]} :
       /\ slates[new.slate] # "gone"
       /\ txns' = [txns EXCEPT ![t] = new]
       /\ Remembers({t}, {new}, history)
  /\ UNCHANGED <<accounts, opening, given, slates, statements, recent>>

\* updateTransaction: what is sent of amount, date and slate goes to the
\* other leg of a transfer too.
Edit(c) ==
  /\ desk[c].step = "resolved"
  /\ Leaves(c)
  /\ \E t \in Rows : \E new \in Changes(t, desk[c].slate) \ {txns[t]} :
       LET sent(old, asked, other) == IF asked # old THEN asked ELSE other
           follow(u) == [txns[u] EXCEPT !.amount = sent(txns[t].amount, new.amount, @),
                                        !.date = sent(txns[t].date, new.date, @),
                                        !.slate = sent(txns[t].slate, new.slate, @)]
       IN /\ slates[new.slate] # "gone"
          /\ txns' = [u \in RowIds |-> IF u = t THEN new
                                      ELSE IF u \in Paired(t) THEN follow(u) ELSE txns[u]]
          /\ Remembers({t} \cup Paired(t), {new} \cup {follow(u) : u \in Paired(t)}, history)
  /\ UNCHANGED <<accounts, opening, given, slates, statements, recent>>

\* update_transaction: the row alone (only the account is told to the other leg).
EditByAssistant(c) ==
  /\ desk[c].step = "resolved"
  /\ Leaves(c)
  /\ \E t \in Rows : \E new \in Changes(t, desk[c].slate) \ {txns[t]} :
       /\ slates[new.slate] # "gone"
       /\ txns' = [txns EXCEPT ![t] = new]
       /\ Remembers({t}, {new}, [history EXCEPT !.bent = @ \cup {t}])
  /\ UNCHANGED <<accounts, opening, given, slates, statements, recent>>

DeleteRow(c) ==
  /\ InOneStep(c)
  /\ \E t \in Rows :
       LET gone == {t} \cup ({txns[t].pair} \cap Rows)
       IN /\ txns' = [u \in RowIds |-> IF u \in gone THEN NoRow ELSE txns[u]]
          /\ recent' = recent \ gone
          /\ Remembers(gone, {}, history)
  /\ UNCHANGED <<accounts, opening, given, slates, statements>>

FiveMinutesPass ==
  /\ recent # {}
  /\ recent' = {}
  /\ UNCHANGED <<accounts, opening, txns, given, slates, statements, desk, orders, history>>

-----------------------------------------------------------------------------
(* Slates. *)

MoveToSlate(c) ==
  /\ desk[c].step = "resolved"
  /\ Leaves(c)
  /\ slates[desk[c].slate] # "gone"
  /\ \E T \in SUBSET Rows \ {{}} :
       txns' = [u \in RowIds |-> IF u \in T \/ (u \in Rows /\ txns[u].pair \in T)
                                 THEN [txns[u] EXCEPT !.slate = desk[c].slate] ELSE txns[u]]
  /\ UNCHANGED <<accounts, opening, given, slates, statements, recent, history>>

ArchiveSlate(c) ==
  /\ InOneStep(c)
  /\ slates[Trip] # "gone"
  /\ slates' = [slates EXCEPT ![Trip] = IF @ = "open" THEN "archived" ELSE "open"]
  /\ UNCHANGED <<accounts, opening, txns, given, statements, recent, history>>

Held == {t \in Rows : txns[t].slate = Trip}

\* What the slate holds is counted; the owner may have agreed to move it.
CountSlate(c) ==
  /\ Enters(c)
  /\ slates[Trip] # "gone"
  /\ desk' = [desk EXCEPT ![c] = [step |-> "counted", moves |-> Held # {}]]
  /\ UNCHANGED <<accounts, opening, txns, given, slates, statements, recent, history>>

\* Rows filed since an empty count make the deletion fail (RESTRICT).
DeleteSlate(c) ==
  /\ desk[c].step = "counted"
  /\ Leaves(c)
  /\ slates[Trip] # "gone"
  /\ Held # {} => desk[c].moves
  /\ txns' = [t \in RowIds |-> IF t \in Held THEN [txns[t] EXCEPT !.slate = PlainLife] ELSE txns[t]]
  /\ slates' = [slates EXCEPT ![Trip] = "gone"]
  /\ UNCHANGED <<accounts, opening, given, statements, recent, history>>

-----------------------------------------------------------------------------
(* The card's statements. *)

Unsettles == history' = [history EXCEPT !.quiet = @ /\ Computing = {}]

\* computeStatementTotals, first part: where the cycle starts and its charges.
ReadCharges(c) ==
  /\ Enters(c)
  /\ Card \in accounts
  /\ \E date \in Dates :
       LET from == Max({0} \cup {statements[s].date : s \in {p \in Closed : statements[p].date < date}})
       IN desk' = [desk EXCEPT ![c] =
            [step |-> "charges", date |-> date, from |-> from,
             charges |-> SumRows(OnCard({"expense"}, from, date)) - SumRows(OnCard({"income"}, from, date))]]
  /\ UNCHANGED <<accounts, opening, txns, given, slates, statements, recent, history>>

\* The newest statement before date carries over, else the opening debt.
CarriedOver(date) ==
  LET before == {s \in Closed : statements[s].date < date}
  IN IF before = {} THEN Max({0, -opening})
     ELSE statements[CHOOSE s \in before : \A p \in before : statements[p].date <= statements[s].date].due

ReadBalanceInclusive(c) ==  \* mutant: payments of the previous closing date count twice
  /\ desk[c].step = "charges"
  /\ LET d == desk[c]
         paid == SumRows(OnCard({"transfer_in"}, d.from - 1, d.date))
     IN desk' = [desk EXCEPT ![c] = [step |-> "totals", date |-> d.date,
                                     due |-> CarriedOver(d.date) - paid + d.charges]]
  /\ UNCHANGED <<accounts, opening, txns, given, slates, statements, recent, orders, history>>

ReadBalance(c) ==
  /\ desk[c].step = "charges"
  /\ LET d == desk[c]
         paid == SumRows(OnCard({"transfer_in"}, d.from, d.date))
     IN desk' = [desk EXCEPT ![c] = [step |-> "totals", date |-> d.date,
                                     due |-> CarriedOver(d.date) - paid + d.charges]]
  /\ UNCHANGED <<accounts, opening, txns, given, slates, statements, recent, orders, history>>

CloseCycle(c) ==
  /\ desk[c].step = "totals"
  /\ Leaves(c)
  /\ Card \in accounts
  /\ \E s \in Statements \ Closed :
       /\ \A d \in Clerks : desk[d].step \in {"unpaid", "marked"} => desk[d].statement # s
       /\ statements' = [statements EXCEPT ![s] = [date |-> desk[c].date, due |-> desk[c].due, paid |-> FALSE]]
       /\ history' = [history EXCEPT !.quiet = @ /\ Computing = {c}, !.reopened = @ \ {s}, !.payments[s] = 0]
  /\ UNCHANGED <<accounts, opening, txns, given, slates, recent>>

\* The owner's own figure or date.
CorrectStatement(c) ==
  /\ InOneStep(c)
  /\ \E s \in Closed :
       \E new \in {[statements[s] EXCEPT !.due = m] : m \in Amounts} \cup {[statements[s] EXCEPT !.date = d] : d \in Dates} :
         /\ new # statements[s]
         /\ statements' = [statements EXCEPT ![s] = new]
  /\ history' = [history EXCEPT !.quiet = FALSE]
  /\ UNCHANGED <<accounts, opening, txns, given, slates, recent>>

DeleteStatement(c) ==
  /\ InOneStep(c)
  /\ \E s \in Closed :
       /\ statements' = [statements EXCEPT ![s] = NoRow]
       /\ history' = [history EXCEPT !.quiet = @ /\ Computing = {}]
  /\ UNCHANGED <<accounts, opening, txns, given, slates, recent>>

\* Marking a statement paid reads it first, so that the payment is posted once.
ReadUnpaid(c) ==
  /\ Enters(c)
  /\ \E s \in Closed :
       /\ ~statements[s].paid /\ statements[s].due > 0
       /\ desk' = [desk EXCEPT ![c] = [step |-> "unpaid", statement |-> s, due |-> statements[s].due]]
       /\ history' = IF \E d \in Clerks : desk[d].step = "unpaid" /\ desk[d].statement = s
                     THEN [history EXCEPT !.reopened = @ \cup {s}] ELSE history
  /\ UNCHANGED <<accounts, opening, txns, given, slates, statements, recent>>

MarkPaidLater(c) ==  \* mutant: the mark is left to a later request
  /\ desk[c].step = "unpaid"
  /\ desk' = [desk EXCEPT ![c].step = "marked"]
  /\ UNCHANGED <<accounts, opening, txns, given, slates, statements, recent, orders, history>>

MarkPaid(c) ==
  /\ desk[c].step = "unpaid"
  /\ desk' = [desk EXCEPT ![c].step = "marked"]
  /\ statements' = [s \in Statements |-> IF s = desk[c].statement /\ s \in Closed
                                        THEN [statements[s] EXCEPT !.paid = TRUE] ELSE statements[s]]
  /\ UNCHANGED <<accounts, opening, txns, given, slates, recent, orders, history>>

\* The payment is dated today and filed under PlainLife by the table's trigger.
PostPayment(c) ==
  /\ desk[c].step = "marked"
  /\ Leaves(c)
  /\ \E today \in Dates :
       LET legs == Legs(Bank, Card, desk[c].due, today, PlainLife)
       IN /\ Inserted(legs)
          /\ Remembers({}, {legs[1], legs[2]}, [history EXCEPT !.payments[desk[c].statement] = @ + 1])
  /\ recent' = recent \cup {given + 1, given + 2}
  /\ UNCHANGED <<accounts, opening, slates, statements>>

MarkUnpaid(c) ==
  /\ InOneStep(c)
  /\ \E s \in Closed :
       /\ statements[s].paid
       /\ statements' = [statements EXCEPT ![s].paid = FALSE]
       /\ history' = [history EXCEPT !.reopened = @ \cup {s}]
  /\ UNCHANGED <<accounts, opening, txns, given, slates, recent>>

-----------------------------------------------------------------------------
(* Accounts. *)

SetOpening(c) ==
  /\ InOneStep(c)
  /\ Card \in accounts
  /\ opening' \in {-1, 0, 1} \ {opening}
  /\ history' = [history EXCEPT !.quiet = @ /\ Closed = {} /\ Computing = {}]
  /\ UNCHANGED <<accounts, txns, given, slates, statements, recent>>

\* ON DELETE CASCADE; a transfer's other leg stays, its partner gone.
DeleteLedgerAccount(c) ==
  /\ InOneStep(c)
  /\ \E a \in accounts :
       /\ accounts' = accounts \ {a}
       /\ txns' = [t \in RowIds |-> IF t \in Rows /\ txns[t].account = a THEN NoRow ELSE txns[t]]
       /\ recent' = {t \in recent : txns[t].account # a}
       /\ statements' = IF a = Card THEN [s \in Statements |-> NoRow] ELSE statements
       /\ history' = [history EXCEPT !.posted = {t \in @ : txns[t].account # a}]
  /\ UNCHANGED <<opening, given, slates>>

\* A refusal, a failed statement, a request cut off.
Abandon(c) ==
  /\ desk[c] # Unread
  /\ Leaves(c)
  /\ UNCHANGED <<accounts, opening, txns, given, slates, statements, recent, history>>

-----------------------------------------------------------------------------

\* A board as earlier requests may have left it: its first rows, the card's
\* first statement or none, the other slate, and the ids given before.
LedgerStart(openings, trip, rows, closed, before) ==
  /\ accounts = Accounts
  /\ opening \in openings
  /\ txns = [t \in RowIds |-> IF t \in DOMAIN rows THEN rows[t] ELSE NoRow]
  /\ given = before
  /\ slates = [s \in {PlainLife, Trip} |-> IF s = Trip THEN trip ELSE "open"]
  /\ statements = [s \in Statements |-> IF s = 1 THEN closed ELSE NoRow]
  /\ desk = [c \in Clerks |-> Unread]
  /\ recent = {}
  /\ orders = MaxOrders
  /\ history = Untold

Paid == <<Row(Bank, "transfer_out", 1, 1, PlainLife, 2), Row(Card, "transfer_in", 1, 1, PlainLife, 1)>>
Unpaid == [date |-> 1, due |-> 1, paid |-> FALSE]

\* The card starts with a debt of 1: a payment of it on day 1 and no
\* statement yet, or a statement of day 1 that is not paid.
CardStart == \/ LedgerStart({-1}, "gone", Paid, NoRow, 2)
             \/ LedgerStart({-1}, "gone", <<>>, Unpaid, 0)

LedgerInit == LedgerStart({-1, 0}, "open", <<>>, NoRow, 0)

RowStep(c) == ResolveSlate(c) \/ CheckDuplicate(c) \/ Record(c) \/ RecordTransfer(c)
              \/ Edit(c) \/ EditByAssistant(c) \/ DeleteRow(c) \/ Abandon(c)
SlateStep(c) == MoveToSlate(c) \/ ArchiveSlate(c) \/ CountSlate(c) \/ DeleteSlate(c)
CardStep(c) == ReadCharges(c) \/ ReadBalance(c) \/ CloseCycle(c) \/ CorrectStatement(c)
               \/ DeleteStatement(c) \/ ReadUnpaid(c) \/ MarkPaid(c) \/ PostPayment(c) \/ MarkUnpaid(c)
AccountStep(c) == SetOpening(c) \/ DeleteLedgerAccount(c)

LedgerNext == \/ FiveMinutesPass
              \/ \E c \in Clerks : RowStep(c) \/ SlateStep(c) \/ CardStep(c) \/ AccountStep(c)

LedgerSpec == (LedgerInit \/ CardStart) /\ [][LedgerNext]_ledgerVars

-----------------------------------------------------------------------------

\* The two legs of a transfer keep the same amount, date and slate through
\* edits of either, moves, slate deletions and posted payments, and a leg is
\* alone only after the other's account was deleted: money moved is neither
\* made nor lost, except where the assistant edited one leg.
LegsMatch ==
  \A t \in Rows : txns[t].pair # 0 =>
    LET p == txns[t].pair
    IN IF p \in Rows
       THEN /\ txns[p].pair = t /\ {txns[t].type, txns[p].type} = {"transfer_out", "transfer_in"}
            /\ {t, p} \cap history.bent = {} =>
                 /\ txns[p].amount = txns[t].amount /\ txns[p].date = txns[t].date
                 /\ txns[p].slate = txns[t].slate
       ELSE accounts # Accounts

\* What the comment on slates and the edit handler say of every transfer.
TransferWhole ==
  \A t \in Rows : txns[t].pair \in Rows =>
    /\ txns[txns[t].pair].amount = txns[t].amount
    /\ txns[txns[t].pair].slate = txns[t].slate

\* One payment told twice (the bank's message and the app's) is entered once,
\* however the copies interleave, while the first entry stands as it was sent.
NoEcho ==
  \A t, u \in history.posted \cap recent :
    t # u => ~Matches(t, [account |-> txns[u].account, type |-> txns[u].type,
                       amount |-> txns[u].amount, date |-> txns[u].date])

\* The rows keep in step with each other: legs match, and no row says again
\* what another says.
RowsHold == LegsMatch /\ NoEcho

\* The chain of statements, each built on the one before, says what the rows
\* say: the opening debt and every charge less credits and payments up to the
\* date.  Only a row written into a closed cycle, a statement corrected by
\* hand, or two statements made at once can part them.
StatementsAddUp ==
  history.quiet => \A s \in Closed :
    statements[s].due = Max({0, -opening}) + SumRows(OnCard({"expense"}, 0, statements[s].date))
                        - SumRows(OnCard({"income", "transfer_in"}, 0, statements[s].date))

\* A statement's payment is posted a second time only if the statement was
\* unmarked in between or two requests found it unpaid together.
PaidOnceUnlessReopened ==
  \A s \in Statements : history.payments[s] > 1 => s \in history.reopened

\* "Read current state first so the payment posts at most once."
PaidOnce == \A s \in Statements : history.payments[s] <= 1

\* A statement adds up to the rows of its period and is paid once, unless it was
\* opened again.
StatementsHold == StatementsAddUp /\ PaidOnceUnlessReopened

=============================================================================
