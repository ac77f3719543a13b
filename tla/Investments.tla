---------------------------- MODULE Investments ----------------------------
(***************************************************************************)
(* One investment: the payments into it (db/investments.go, under the      *)
(* requests of api/finance.go and the assistant) and the automatic debit   *)
(* (api/investments_cron.go).                                              *)
(*                                                                         *)
(* A payment is one transfer_out row; invested_amount is a number kept in  *)
(* step with the rows.  Making a payment locks the investment; editing or  *)
(* deleting one reads its amount first and locks only what it writes.      *)
(***************************************************************************)
EXTENDS Integers, Sequences, FiniteSetsExt

CONSTANTS
  Hands,        \* requests and job runs that may be open at the same time
  MaxPayment,   \* largest amount of a payment; an instalment is 1
  LastCycle,    \* bound: instalments fall due in 1..LastCycle
  MaxActs,      \* bound: requests and runs of one behaviour
  Unset         \* no next_debit_date

Instalment == 1
Due == 1..(LastCycle + 1)
Free == [kind |-> "free"]

ASSUME InvestmentsAssumption == MaxPayment \in Nat /\ LastCycle \in Nat

VARIABLES
  date,         \* today, counted in instalments
  fund,         \* auto_debit, next_debit_date, maturity_date, invested_amount
  payments,     \* amounts of the payment rows in order of id; 0 once deleted
  contributed,  \* fin_investment_contributions: the due dates posted
  doing,        \* [Hands -> what an open request has read]
  acts,
  stated,       \* history: invested amount beyond the payments, as its owner set it
  overlapped,   \* history: payments that two requests edited at once
  from,         \* history: the next debit as its owner last set it
  ended,        \* history: the job switched the debit off
  overtaken     \* history: the debit was edited while a run was open

investmentVars == <<date, fund, payments, contributed, doing, acts, stated, overlapped, from, ended, overtaken>>

-----------------------------------------------------------------------------

Payed(s) == MapThenSumSet(LAMBDA k : s[k], DOMAIN s)
Begins(h, what) == /\ acts > 0 /\ doing[h] = Free
                   /\ acts' = acts - 1
                   /\ doing' = [doing EXCEPT ![h] = what]
Frees(h) == doing' = [doing EXCEPT ![h] = Free]
Untouched == UNCHANGED <<date, stated, from>>

(* Payments. *)

\* TransferToInvestment: FOR UPDATE, row and shift in one transaction.
Pay(amount) == /\ payments' = Append(payments, amount)
               /\ fund' = [fund EXCEPT !.invested = @ + amount]

PayIn ==
  /\ acts > 0 /\ acts' = acts - 1
  /\ \E amount \in 1..MaxPayment : Pay(amount)
  /\ Untouched
  /\ UNCHANGED <<contributed, doing, overlapped, ended, overtaken>>

\* InvestmentTransfer: the amount before the edit; to = 0 deletes the row.
ReadPayment(h) ==
  /\ \E k \in DOMAIN payments : \E to \in 0..MaxPayment :
       /\ payments[k] > 0
       /\ Begins(h, [kind |-> "edit", row |-> k, old |-> payments[k], to |-> to])
  /\ Untouched
  /\ UNCHANGED <<fund, payments, contributed, overlapped, ended, overtaken>>

FollowEditOnly(h) ==  \* mutant: only an edit is followed, not a deletion
  /\ doing[h].kind = "edit"
  /\ LET k == doing[h].row
         new == IF payments[k] = 0 THEN 0 ELSE doing[h].to
     IN /\ payments' = [payments EXCEPT ![k] = new]
        /\ fund' = IF new = 0 THEN fund ELSE [fund EXCEPT !.invested = @ + new - doing[h].old]
        /\ overlapped' = IF payments[k] # doing[h].old THEN overlapped \cup {k} ELSE overlapped
  /\ Frees(h)
  /\ Untouched
  /\ UNCHANGED <<contributed, acts, ended, overtaken>>

\* Neither request looks at the rows it affected: a payment deleted meanwhile
\* counts as 0 now.  FollowInvestmentTransfer shifts by the difference to what
\* was read.
FollowEdit(h) ==
  /\ doing[h].kind = "edit"
  /\ LET k == doing[h].row
         new == IF payments[k] = 0 THEN 0 ELSE doing[h].to
     IN /\ payments' = [payments EXCEPT ![k] = new]
        /\ fund' = [fund EXCEPT !.invested = @ + new - doing[h].old]
        /\ overlapped' = IF payments[k] # doing[h].old THEN overlapped \cup {k} ELSE overlapped
  /\ Frees(h)
  /\ Untouched
  /\ UNCHANGED <<contributed, acts, ended, overtaken>>

-----------------------------------------------------------------------------
(* ProcessInvestmentDebits. *)

StartDebits(h) ==
  /\ fund.auto /\ fund.next # Unset
  /\ Begins(h, [kind |-> "debit", due |-> fund.next, maturity |-> fund.maturity, today |-> date])
  /\ Untouched
  /\ UNCHANGED <<fund, payments, contributed, overlapped, ended, overtaken>>

IsDue(job) == job.due <= job.today /\ job.due < job.maturity

\* postInvestmentDebit: UNIQUE (investment_id, due_date) gates the payment.
PostDebit(h) ==
  /\ doing[h].kind = "debit" /\ IsDue(doing[h])
  /\ contributed' = contributed \cup {doing[h].due}
  /\ IF doing[h].due \in contributed THEN UNCHANGED <<fund, payments>> ELSE Pay(Instalment)
  /\ doing' = [doing EXCEPT ![h].due = @ + 1]
  /\ Untouched
  /\ UNCHANGED <<acts, overlapped, ended, overtaken>>

EndDebitsLate(h) ==  \* mutant: the date after the next one is stored
  /\ doing[h].kind = "debit" /\ ~IsDue(doing[h])
  /\ fund' = IF doing[h].due >= doing[h].maturity THEN [fund EXCEPT !.auto = FALSE, !.next = Unset]
             ELSE [fund EXCEPT !.next = doing[h].due + 1]
  /\ ended' = (doing[h].due >= doing[h].maturity)
  /\ Frees(h)
  /\ Untouched
  /\ UNCHANGED <<payments, contributed, acts, overlapped, overtaken>>

\* By id, whatever the owner has set since: off at maturity, else the next date.
EndDebits(h) ==
  /\ doing[h].kind = "debit" /\ ~IsDue(doing[h])
  /\ fund' = IF doing[h].due >= doing[h].maturity THEN [fund EXCEPT !.auto = FALSE, !.next = Unset]
             ELSE [fund EXCEPT !.next = doing[h].due]
  /\ ended' = (doing[h].due >= doing[h].maturity)
  /\ Frees(h)
  /\ Untouched
  /\ UNCHANGED <<payments, contributed, acts, overlapped, overtaken>>

\* A failed statement rolls its transaction back and ends the run.
GiveUp(h) ==
  /\ doing[h] # Free
  /\ Frees(h)
  /\ Untouched
  /\ UNCHANGED <<fund, payments, contributed, acts, overlapped, ended, overtaken>>

-----------------------------------------------------------------------------
(* updateInvestment and set_investment_auto_debit. *)

\* Enabling without a date takes the next one on the start day: today or later.
Settings ==
  {[fund EXCEPT !.auto = TRUE, !.next = d] : d \in Due}
  \cup {[fund EXCEPT !.auto = FALSE, !.next = Unset]}
  \cup {[fund EXCEPT !.next = d] : d \in Due}
  \cup {[fund EXCEPT !.maturity = d] : d \in Due}

UpdateDebit ==
  /\ acts > 0 /\ acts' = acts - 1
  /\ fund' \in Settings
  /\ from' = fund'.next
  /\ ended' = FALSE
  /\ overtaken' = \E h \in Hands : doing[h].kind = "debit"
  /\ UNCHANGED <<date, payments, contributed, doing, stated, overlapped>>

SetInvested ==
  /\ acts > 0 /\ acts' = acts - 1
  /\ \E amount \in 0..MaxPayment :
       /\ fund' = [fund EXCEPT !.invested = amount]
       /\ stated' = amount - Payed(payments)
  /\ UNCHANGED <<date, payments, contributed, doing, overlapped, from, ended, overtaken>>

NextCycle ==
  /\ date < LastCycle
  /\ date' = date + 1
  /\ UNCHANGED <<fund, payments, contributed, doing, acts, stated, overlapped, from, ended, overtaken>>

-----------------------------------------------------------------------------

Funds == [auto : {TRUE}, next : {2}, maturity : Due, invested : {0}]
         \cup [auto : {FALSE}, next : {Unset}, maturity : Due, invested : {0}]

InvestmentsStart(funds) ==
  /\ date = 1 /\ fund \in funds /\ payments = <<>> /\ contributed = {}
  /\ doing = [h \in Hands |-> Free] /\ acts = MaxActs
  /\ stated = 0 /\ overlapped = {} /\ from = fund.next /\ ended = FALSE /\ overtaken = FALSE

InvestmentsInit == InvestmentsStart(Funds)

InvestmentsNext ==
  \/ PayIn \/ UpdateDebit \/ SetInvested \/ NextCycle
  \/ \E h \in Hands : \/ ReadPayment(h) \/ FollowEdit(h)
                      \/ StartDebits(h) \/ PostDebit(h) \/ EndDebits(h) \/ GiveUp(h)

InvestmentsSpec == InvestmentsInit /\ [][InvestmentsNext]_investmentVars

-----------------------------------------------------------------------------

\* The invested amount is what its owner stated plus every payment made since,
\* through debits, edits, deletions and corrections that overlap, unless two
\* requests edited or deleted the same payment at once.
InvestedInStep == overlapped = {} => fund.invested = stated + Payed(payments)

\* No instalment is left out and the debit ends with the last one before
\* maturity: from the date its owner set, every one before the next is posted
\* once, and the job switches off only when they all are, unless the owner
\* edited the debit while a run was open.
DebitsAccounted ==
  ~overtaken =>
    /\ fund.next # Unset /\ from # Unset => from..(fund.next - 1) \subseteq contributed
    /\ ended /\ from # Unset => from..(fund.maturity - 1) \subseteq contributed

\* The invested amount is in step with the payments, and each automatic debit is
\* accounted for.
InvestedAddsUp == InvestedInStep /\ DebitsAccounted

=============================================================================
