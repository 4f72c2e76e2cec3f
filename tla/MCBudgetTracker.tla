--------------------------- MODULE MCBudgetTracker ---------------------------
(* Small instances of BudgetTracker for TLC.                               *)
EXTENDS BudgetTracker

=============================================================================
