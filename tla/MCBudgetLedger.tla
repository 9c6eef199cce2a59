--------------------------- MODULE MCBudgetLedger ---------------------------
(***************************************************************************)
(* BudgetLedger on a small instance: a query charges one budget, or both.  *)
(***************************************************************************)
EXTENDS BudgetLedger, TLC

CONSTANTS
    MaxOwed,   \* epsilon charged to an account without an answer
    MaxCharge  \* epsilon a query charges to a budget

MCCharges == {ch \in [Budgets -> 0 .. MaxCharge] : \E b \in Budgets : ch[b] > 0}

Bounds == \A a \in Accounts : owed[a] <= MaxOwed

Alike == Permutations(Callers) \cup Permutations(Budgets)

MCSpec == Init /\ [][Next /\ Bounds']_vars
=============================================================================
