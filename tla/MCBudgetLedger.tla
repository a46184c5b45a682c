----------------------------- MODULE MCBudgetLedger -----------------------------
(* BudgetLedger on small instances.                                             *)
EXTENDS BudgetLedger, TLC

CONSTANTS s1, u1, u2, o1, n1

Ask(s, o, u, c, n) ==
    [service |-> s, org |-> o, principal |-> u, class |-> c, worker |-> n, pinned |-> n # NoWorker]

\* A reserve for Control and one for Interactive; two more slots are shared.
OneEach == [Control |-> 1, Interactive |-> 1, Metadata |-> 0, Job |-> 0]

TwoUsers == {Ask(s1, o1, u1, "Control", NoWorker),
             Ask(s1, o1, u1, "Interactive", n1),
             Ask(s1, o1, u2, "Interactive", NoWorker),
             Ask(s1, o1, u2, "Job", NoWorker)}

Ids == Permutations(Permit) \cup Permutations(Waiter)
=================================================================================
