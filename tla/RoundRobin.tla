------------------------------- MODULE RoundRobin -------------------------------
(* The resource classes of a database service and SharedRoundRobin::pick, the   *)
(* smooth weighted rotation that shares a service's common slots among the      *)
(* classes that have somebody waiting.                                          *)
EXTENDS Integers

Class == {"Control", "Interactive", "Metadata", "Job"}

\* ResourceClass::ALL, the order in which reserved slots are offered.
ClassOrder == <<"Control", "Interactive", "Metadata", "Job">>

\* Control only cancels and checks health, from slots of its own.
SharedMembers == {"Interactive", "Metadata", "Job"}

Weight == [Interactive |-> 4, Metadata |-> 2, Job |-> 1]

\* Among equal credits the first in shared_members() wins.
Rank == [Interactive |-> 1, Metadata |-> 2, Job |-> 3]

NoCredit == [c \in SharedMembers |-> 0]

Share(c, active) == IF c \in active THEN Weight[c] ELSE 0

Total(active) ==
    Share("Interactive", active) + Share("Metadata", active) + Share("Job", active)

\* Every class with somebody waiting earns its weight.
Earned(credit, active) == [c \in SharedMembers |-> credit[c] + Share(c, active)]

\* Fault: the class the service listed first wins whatever the credits are.
Chosen_ByRank(credit, active) ==
    CHOOSE c \in active : \A d \in active : Rank[c] <= Rank[d]

Chosen(credit, active) ==
    LET earned == Earned(credit, active)
    IN CHOOSE c \in active : \A d \in active :
          \/ earned[c] > earned[d]
          \/ earned[c] = earned[d] /\ Rank[c] <= Rank[d]

\* The chosen class pays what all of them have earned.
AfterPick(credit, active) ==
    [Earned(credit, active) EXCEPT ![Chosen(credit, active)] = @ - Total(active)]
=================================================================================
