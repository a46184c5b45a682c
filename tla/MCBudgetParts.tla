----------------------------- MODULE MCBudgetParts -----------------------------
(* Two parts of the budget that share no state, each for whatever may be asked   *)
(* of it: the sessions' half of the ledger (three tickets, and limits two of     *)
(* them can reach), and the rotation of the shared slots.  One of the two moves  *)
(* while the other is as it began.                                               *)
EXTENDS BudgetSessions, SharedRoundRobin, TLC

PartsInit == Init /\ SharedInit

PartsNext ==
    \/ SharedInit /\ AnyNext /\ UNCHANGED sharedVars
    \/ Init /\ SharedNext /\ UNCHANGED vars

PartsSpec == PartsInit /\ [][PartsNext]_<<vars, sharedVars>>

Same == Permutations(Ticket)
================================================================================
