------------------------------ MODULE MCMoney ------------------------------
(* Lends, Billers, Investments, Ledger and Budgets share accounts and no state that  *)
(* the checks look at: a behaviour is one of them, the others stand still.  *)
(* The ledger is taken in two parts: rows and slates with no debt to start  *)
(* from and two rows to come, and the card with its statements, where every *)
(* row is in Plain.                                                         *)
EXTENDS Lends, Billers, Investments, Ledger, Budgets, TLC

VARIABLE checked   \* "lends", "biller", "investment", "slates", "card" or "budget"

\* The requests of all of them are called e1 and e2.
Alike == Permutations(People) \cup Permutations(Editors)

LendsRest == /\ book = Receipts(Price, 1) /\ charge = Price /\ raced = {}
             /\ pending = [r \in Editors |-> Idle] /\ left = MaxRequests
BillersRest == BillersStart({CHOOSE row \in Created : TRUE})
InvestmentsRest == InvestmentsStart({CHOOSE f \in Funds : TRUE})

LedgerRest == LedgerStart({0}, "open", <<>>, NoRow, 2)
BudgetsRest == BudgetsStart(FALSE)

SlatesNext ==
  FiveMinutesPass \/ \E c \in Clerks : RowStep(c) \/ SlateStep(c) \/ DeleteLedgerAccount(c)
CardNext ==
  FiveMinutesPass \/ \E c \in Clerks : RowStep(c) \/ CardStep(c) \/ AccountStep(c)

OthersRest(mine) ==
  /\ mine # "lends" => LendsRest
  /\ mine # "biller" => BillersRest
  /\ mine # "investment" => InvestmentsRest
  /\ mine \notin {"slates", "card"} => LedgerRest
  /\ mine # "budget" => BudgetsRest

MoneyInit ==
  \/ checked = "lends" /\ LendsInit /\ OthersRest("lends")
  \/ checked = "biller" /\ BillersInit /\ OthersRest("biller")
  \/ checked = "investment" /\ InvestmentsInit /\ OthersRest("investment")
  \/ checked = "slates" /\ LedgerRest /\ OthersRest("slates")
  \/ checked = "card" /\ CardStart /\ OthersRest("card")
  \/ checked = "budget" /\ BudgetsInit /\ OthersRest("budget")

MoneyNext ==
  /\ UNCHANGED checked
  /\ \/ checked = "lends" /\ UNCHANGED <<billerVars, investmentVars, ledgerVars, budgetVars>> /\ LendsNext
     \/ checked = "biller" /\ UNCHANGED <<lendVars, investmentVars, ledgerVars, budgetVars>> /\ BillersNext
     \/ checked = "investment" /\ UNCHANGED <<lendVars, billerVars, ledgerVars, budgetVars>> /\ InvestmentsNext
     \/ checked = "slates" /\ UNCHANGED <<lendVars, billerVars, investmentVars, budgetVars>> /\ SlatesNext
     \/ checked = "card" /\ UNCHANGED <<lendVars, billerVars, investmentVars, budgetVars>> /\ CardNext
     \/ checked = "budget" /\ UNCHANGED <<lendVars, billerVars, investmentVars, ledgerVars>> /\ BudgetsNext

MoneySpec == MoneyInit /\ [][MoneyNext]_<<checked, lendVars, billerVars, investmentVars, ledgerVars, budgetVars>>
=============================================================================
