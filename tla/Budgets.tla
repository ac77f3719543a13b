------------------------------ MODULE Budgets ------------------------------
(***************************************************************************)
(* One budget of one user: the slates it names, its caps on categories,    *)
(* and the slates and categories under it (api/finance.go, api/slates.go,  *)
(* ai/tools_slates.go).  What it counts is a set of slates, so amounts and *)
(* dates are left out.                                                     *)
(*                                                                         *)
(* updateBudget replaces both lists inside one transaction, by a DELETE    *)
(* and INSERTs.  Under READ COMMITTED a DELETE takes away the rows its     *)
(* statement saw; it waits for another transaction that deletes them too,  *)
(* and never sees the rows that one inserted instead.                      *)
(***************************************************************************)
EXTENDS Integers, FiniteSets

CONSTANTS
  Usual,       \* the Plain slate, which cannot be deleted
  Outliers,    \* slates the user named
  Categories,
  Planners,    \* requests that may be open at the same time
  MaxPlans,    \* bound: requests of one behaviour
  NoBudget

Slates == Outliers \cup {Usual}
Waiting == [step |-> "idle"]

\* The rows of a budget: who wrote each, and the slate or category it is of.
SlateRows == [by : Nat, of : Slates]
CapRows == [by : Nat, of : Categories]

ASSUME BudgetsAssumption ==
  /\ MaxPlans \in Nat /\ IsFiniteSet(Categories)
  /\ Slates \cap Categories = {}
  /\ NoBudget \notin [named : SUBSET SlateRows, caps : SUBSET CapRows]

VARIABLES
  kept,      \* slates and categories that exist
  budget,    \* NoBudget, or its rows: [named : fin_budget_slates, caps : fin_budget_items]
  planning,  \* [Planners -> what an open edit has done]
  plans,     \* requests still to come, which also numbers the rows
  wanted     \* what the owner asked for last: [named, caps, raced]

budgetVars == <<kept, budget, planning, plans, wanted>>

RowsOf(things) == {[by |-> plans, of |-> x] : x \in things}
Things(rows) == {row.of : row \in rows}

\* A deleted slate's rows cascade; a deleted category leaves a cap without one.
Named == Things(budget.named) \cap kept

\* budgetLens: the slates a budget reads; no rows means Plain only.
Counts == IF Named = {} THEN {Usual} ELSE Named

Editing == {c \in Planners : planning[c] # Waiting}
Arrives(c) == planning[c] = Waiting /\ plans > 0 /\ plans' = plans - 1

CreateBudget(c) ==
  /\ Arrives(c)
  /\ budget = NoBudget
  /\ \E slates \in SUBSET (Slates \cap kept), caps \in SUBSET (Categories \cap kept) :
       /\ budget' = [named |-> RowsOf(slates), caps |-> RowsOf(caps)]
       /\ wanted' = [named |-> slates, caps |-> caps, raced |-> FALSE]
  /\ UNCHANGED <<kept, planning>>

\* An edit that writes the name, the dates or the amount locks the budget's
\* row first; the lists alone do not.
OpenEdit(c) ==
  /\ Arrives(c)
  /\ budget # NoBudget
  /\ \E header \in BOOLEAN, sends \in SUBSET {"caps", "named"} :
     \E slates \in SUBSET (Slates \cap kept), caps \in SUBSET (Categories \cap kept) :
       /\ ("named" \notin sends => slates = {}) /\ ("caps" \notin sends => caps = {})
       /\ header => \A d \in Editing : ~planning[d].header
       /\ planning' = [planning EXCEPT ![c] = [step |-> "open", header |-> header, sends |-> sends, by |-> plans,
                         slates |-> slates, caps |-> caps, cut |-> {}, behind |-> {}]]
       /\ wanted' = [wanted EXCEPT !.raced = @ \/ Editing # {}]
  /\ UNCHANGED <<kept, budget>>

\* A statement waits for the edits that delete the rows it deletes.
Overlapping(c, rows) == {d \in Editing \ {c} : planning[d].cut \cap rows # {}}
Runs(c, step) == planning[c].step = step /\ planning[c].behind = {}
Added(c, things) == {[by |-> planning[c].by, of |-> x] : x \in things}

Cutting(c, step, rows) ==
  planning' = [planning EXCEPT ![c].step = step, ![c].cut = @ \cup rows, ![c].behind = Overlapping(c, rows)]
Sent(c, list, rows) == IF list \in planning[c].sends THEN rows ELSE {}

CutNothing(c) ==  \* mutant: the old caps are not deleted
  /\ Runs(c, "open")
  /\ planning[c].caps \subseteq kept
  /\ Cutting(c, "caps", {})
  /\ UNCHANGED <<kept, budget, plans, wanted>>

\* The items are replaced first, the slates after them; a slate or category
\* deleted since it was checked fails its foreign key.
CutCaps(c) ==
  /\ Runs(c, "open")
  /\ planning[c].caps \subseteq kept
  /\ Cutting(c, "caps", Sent(c, "caps", budget.caps))
  /\ UNCHANGED <<kept, budget, plans, wanted>>

CutNamed(c) ==
  /\ Runs(c, "caps")
  /\ planning[c].slates \subseteq kept
  /\ Cutting(c, "named", Sent(c, "named", budget.named))
  /\ UNCHANGED <<kept, budget, plans, wanted>>

Closes(c) == [d \in Planners |-> IF d \in Editing \ {c} THEN [planning[d] EXCEPT !.behind = @ \ {c}] ELSE Waiting]

\* ON CONFLICT DO NOTHING: a slate that is named already keeps its row.
CommitEdit(c) ==
  /\ Runs(c, "named")
  /\ LET p == planning[c]
         named == budget.named \ p.cut
     IN /\ budget' = [named |-> named \cup Added(c, p.slates \ Things(named)),
                      caps |-> (budget.caps \ p.cut) \cup Added(c, p.caps)]
        /\ wanted' = [wanted EXCEPT !.named = IF "named" \in p.sends THEN p.slates ELSE @,
                                    !.caps = IF "caps" \in p.sends THEN p.caps ELSE @]
  /\ planning' = Closes(c)
  /\ UNCHANGED <<kept, plans>>

\* A refused reference, a deadlock, a request cut off.
RollBackEdit(c) ==
  /\ planning[c] # Waiting
  /\ planning' = Closes(c)
  /\ UNCHANGED <<kept, budget, plans, wanted>>

\* An open edit holds the rows it has inserted references to.
Holds(c) == (IF planning[c].step = "open" THEN {} ELSE planning[c].caps)
            \cup (IF planning[c].step = "named" THEN planning[c].slates ELSE {})
Referred == UNION {Holds(c) : c \in Editing}

DropReference(c) ==
  /\ Arrives(c)
  /\ \E x \in (kept \ {Usual}) \ Referred : kept' = kept \ {x}
  /\ UNCHANGED <<budget, planning, wanted>>

\* Rows cascade.  It waits for the edits that hold the budget's row by an
\* update or a new reference; the others find nothing left to edit.
DeleteBudget(c) ==
  /\ Arrives(c)
  /\ budget # NoBudget
  /\ \A d \in Editing : ~planning[d].header /\ Holds(d) = {}
  /\ budget' = NoBudget
  /\ planning' = [d \in Planners |-> Waiting]
  /\ UNCHANGED <<kept, wanted>>

\* No budget yet, or one of an outlier with every category capped.
BudgetsStart(made) ==
  /\ kept = Slates \cup Categories
  /\ budget = IF made THEN [named |-> {[by |-> 0, of |-> s] : s \in Outliers},
                            caps |-> {[by |-> 0, of |-> k] : k \in Categories}] ELSE NoBudget
  /\ planning = [c \in Planners |-> Waiting]
  /\ plans = MaxPlans
  /\ wanted = IF made THEN [named |-> Outliers, caps |-> Categories, raced |-> FALSE]
              ELSE [named |-> {}, caps |-> {}, raced |-> FALSE]

BudgetsInit == \E made \in BOOLEAN : BudgetsStart(made)

BudgetsNext ==
  \E c \in Planners :
    \/ CreateBudget(c) \/ OpenEdit(c) \/ CutCaps(c) \/ CutNamed(c) \/ CommitEdit(c)
    \/ RollBackEdit(c) \/ DropReference(c) \/ DeleteBudget(c)

BudgetsSpec == BudgetsInit /\ [][BudgetsNext]_budgetVars

-----------------------------------------------------------------------------

\* A budget holds what one request asked for, less what was deleted since:
\* no cap twice, none of an older edit, unless two edits were open together.
HoldsOneEdit ==
  budget # NoBudget /\ ~wanted.raced =>
    /\ Named = wanted.named \cap kept
    /\ Things(budget.caps) = wanted.caps /\ Cardinality(budget.caps) = Cardinality(wanted.caps)

\* "Budgets ignore slates they do not explicitly name": a budget of outliers
\* never counts normal life.
IgnoresUnnamed ==
  budget # NoBudget /\ ~wanted.raced /\ wanted.named # {} => Counts \subseteq wanted.named
=============================================================================
