------------------------------ MODULE SessionLife ------------------------------
(* What the sessions of a process promise, whoever keeps them: a connection is  *)
(* opened once and never again, within the limit; a session can be found from    *)
(* after its connection is open until it is closed; and an execution starts only *)
(* on an open connection nobody else executes on.                                *)
EXTENDS Naturals, FiniteSets

CONSTANTS Session, NoSession, Execution, SessionLimit

VARIABLES
    resource,       \* of each session: None, Open, Closed, or Leaked in a crash
    table,          \* the sessions that can be found
    work            \* each execution: its stage and its session

lifeVars == <<resource, table, work>>

Idle == [stage |-> "Idle", on |-> NoSession]

LifeInit ==
    /\ resource = [a \in Session |-> "None"]
    /\ table = {}
    /\ work = [e \in Execution |-> Idle]

\* The connections at work, each of which takes a slot.
Connected == {a \in Session : resource[a] = "Open"}

Turns(a, from, to) == resource[a] = from /\ resource' = [resource EXCEPT ![a] = to]

Connects(a) ==
    /\ Cardinality(Connected) < SessionLimit
    /\ Turns(a, "None", "Open") /\ UNCHANGED <<table, work>>

\* It never opens, is closed, or is lost with the actor that had it.
Departs(a) ==
    /\ Turns(a, "None", "Closed") \/ Turns(a, "Open", "Closed") \/ Turns(a, "Open", "Leaked")
    /\ UNCHANGED <<table, work>>

Enters(a) ==
    /\ resource[a] \in {"Open", "Leaked"}
    /\ table' = table \cup {a} /\ UNCHANGED <<resource, work>>

Leaves(a) ==
    /\ resource[a] = "Closed"
    /\ table' = table \ {a} /\ UNCHANGED <<resource, work>>

Passes(e, from, to) == work[e].stage = from /\ work' = [work EXCEPT ![e].stage = to]

Asks(e, a) ==
    /\ work[e].stage = "Idle" /\ a \in table
    /\ \E stage \in {"Waiting", "Over"} : work' = [work EXCEPT ![e] = [stage |-> stage, on |-> a]]
    /\ UNCHANGED <<resource, table>>

Runs(a) == \E e \in Execution : work[e].stage = "Running" /\ work[e].on = a

Starts(e) ==
    /\ Passes(e, "Waiting", "Running")
    /\ resource[work[e].on] = "Open" /\ ~Runs(work[e].on)
    /\ UNCHANGED <<resource, table>>

\* Refused, or done; the connection may be lost with it.
Ends(e) ==
    /\ Passes(e, "Waiting", "Over") \/ Passes(e, "Running", "Over")
    /\ UNCHANGED <<resource, table>>

Loses(e) ==
    /\ Passes(e, "Running", "Over") /\ Turns(work[e].on, "Open", "Closed")
    /\ UNCHANGED table

LifeNext ==
    \/ \E a \in Session : Connects(a) \/ Departs(a) \/ Enters(a) \/ Leaves(a)
    \/ \E e \in Execution : Starts(e) \/ Ends(e) \/ Loses(e) \/ \E a \in Session : Asks(e, a)

LifeSpec == LifeInit /\ [][LifeNext]_lifeVars
================================================================================
