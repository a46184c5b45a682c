-------------------------- MODULE MCBudgetCoordinator --------------------------
(* BudgetCoordinator on small instances.                                        *)
EXTENDS BudgetCoordinator, TLC

CONSTANTS s1, u1, u2, o1, o2, n1, w1, w2, w3

Ask(s, o, u, c, n) ==
    [service |-> s, org |-> o, principal |-> u, class |-> c, worker |-> n, pinned |-> n # NoWorker]

\* One reserved slot for Interactive; the shared ones are given by weight.
OneInteractive == [Control |-> 0, Interactive |-> 1, Metadata |-> 0, Job |-> 0]
NoneReserved == [c \in Class |-> 0]

Interactive1 == Ask(s1, o1, u1, "Interactive", NoWorker)
Interactive2 == Ask(s1, o1, u2, "Interactive", NoWorker)
Job2 == Ask(s1, o1, u2, "Job", NoWorker)

Mixed == {Interactive1, Interactive2, Job2}
MixedAsks == (w1 :> {Interactive1}) @@ (w2 :> {Interactive2}) @@ (w3 :> {Job2})

\* An interactive task against one job.
TwoClasses == {Interactive1, Job2}
TwoClassAsks == (w1 :> {Interactive1}) @@ (w2 :> {Job2})

\* A node and two organizations, for what a drain reaches.
OnNode == Ask(s1, o1, u1, "Interactive", n1)
OfOrg2 == Ask(s1, o2, u2, "Interactive", NoWorker)
Drained == {OnNode, OfOrg2}
DrainedAsks == (w1 :> {OnNode}) @@ (w2 :> {OfOrg2})

PermitIds == Permutations(Permit)
================================================================================
