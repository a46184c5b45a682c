------------------------------ MODULE SessionActor ------------------------------
(* One actor per session: it serves the mailboxes of its session one message at *)
(* a time, and at most one execution flies on the session's physical resource.  *)
(* Control (cancel, invalidate) passes an execution that flies; the rest waits  *)
(* in deferred until it has landed.                                             *)
(*                                                                              *)
(* Sources: execution/runtime/registry/actor.rs, actor/{exec,release,cancel,    *)
(* context}.rs.  A message is the caller's record in call; a caller that has    *)
(* gone leaves its message behind.  An await of the actor inside one handler    *)
(* lets nothing else touch its state: a handler is one step.                    *)
(*                                                                              *)
(* Abstracted: the backend's answers are choices; unfinished says whether work  *)
(* (a transaction, an open handle) is really left on the resource.  Session ids *)
(* are fresh, so the epoch always matches; RegisterHandles is sent by nobody.   *)
EXTENDS Naturals, Sequences, FiniteSets

CONSTANTS
    Session,        \* sessions, each with the actor and the resource opened for it
    NoSession,
    Client,         \* callers of the registry; each has one call at a time
    Execution, NoExecution,
    Handle,         \* transaction and cursor handles a driver may report
    MaxRevision,    \* bound on the revisions of a session's context
    Uncancellable,  \* sessions whose driver has no cancellation path
    Fragile         \* sessions whose driver may panic when it closes the resource

ASSUME ActorAssumption ==
    /\ NoExecution \notin Execution /\ NoSession \notin Session
    /\ MaxRevision \in Nat \ {0}
    /\ Uncancellable \subseteq Session /\ Fragile \subseteq Session

VARIABLES
    actor,          \* ActorState of each session
    execQ, ctrlQ,   \* the mailboxes: callers, in the order of their messages
    task,           \* each execution: its session, its stage and its cancellation
    unfinished,     \* sessions with work left on their resource
    call            \* the call of each client

actorVars == <<actor, execQ, ctrlQ, task, unfinished>>

View == {"New", "Ready", "Executing", "Closing", "Lost", "Closed"}
Transaction == {"None", "Active", "Unknown"}

ActorState ==
    [life : {"Unborn", "Running", "Ended", "Crashed"}, physical : BOOLEAN,
     view : View, tx : Transaction, handles : SUBSET Handle,
     hold : View \cup {"Down"}, flight : Execution \cup {NoExecution},
     deferred : Seq(Client), deadline : BOOLEAN, revision : 0..MaxRevision]

Unborn ==
    [life |-> "Unborn", physical |-> FALSE, view |-> "New", tx |-> "None", handles |-> {},
     hold |-> "Down", flight |-> NoExecution, deferred |-> <<>>, deadline |-> FALSE,
     revision |-> 0]

\* stage of an execution: None, Posted (its request is under way), Refused or Running,
\* then its end; handle is the cancel handle: Silent, Offered by the backend, Bound by the actor,
\* Missed (published after the actor's last look for it, and never read).
\* asked, told: a cancellation was accepted, and passed on to the backend.
TaskState ==
    [stage : {"None", "Posted", "Refused", "Running", "Done", "Failed", "Lost"}, on : Session \cup {NoSession},
     handle : {"Silent", "Offered", "Bound", "Missed"}, asked : BOOLEAN, told : BOOLEAN]

NoTask ==
    [stage |-> "None", on |-> NoSession, handle |-> "Silent", asked |-> FALSE, told |-> FALSE]

\* plan: what the client asked for; op, on: the message under way and its session.
\* cand: the session being opened; old: the one it replaces; left, lost: the sessions an
\* Evict or an InvalidateWorker has still to visit, and those it took out of the table.
Out ==
    [plan |-> "Out", op |-> "None", on |-> NoSession,
     old |-> NoSession, cand |-> NoSession, mode |-> "RollbackAndClose",
     exec |-> NoExecution, revision |-> 0, arms |-> FALSE,
     left |-> {}, lost |-> {}, stage |-> "Out", answer |-> "None"]

CallState ==
    [plan : {"Out", "Register", "View", "Execute", "SetIdleDeadline", "Close", "Evict", "Cancel",
             "InvalidateWorker", "Replace", "Undo", "UndoHeld"},
     op : {"None", "Open", "View", "Execute", "ExecuteBound", "SetIdleDeadline", "Close", "Evict",
           "Cancel", "InvalidateWorker", "Hold", "Resume"},
     on : Session \cup {NoSession}, old : Session \cup {NoSession}, cand : Session \cup {NoSession},
     mode : {"RequireNoTransaction", "RollbackAndClose"},
     exec : Execution \cup {NoExecution}, revision : 0..MaxRevision, arms : BOOLEAN,
     left : SUBSET Session, lost : SUBSET Session,
     stage : {"Out", "Sent", "Answered", "Choosing", "Publishing", "Gone"},
     answer : {"None", "Ok", "OpenFailed", "SessionClosed", "CloseRejected", "SessionLost",
               "ContextRevisionMismatch", "NotDue", "NotHere", "Failed", "Unsupported",
               "AlreadyFinished", "CancelFailed", "Requested", "UnknownSession"}]

--------------------------------------------------------------------------------
(* The loop: which message comes next.  The cancel handle is looked for first,  *)
(* then control, then the queue, and the end of the execution last: one after   *)
(* the other, while the execution runs in a task of its own.  What a later look *)
(* finds may thus be younger than what an earlier one missed.  A message that   *)
(* was missed is taken next time, as if it had come after the step; a handle    *)
(* that was missed when the end was found is lost (Unread).                     *)

Running(a) == actor[a].life = "Running"
Flying(a) == actor[a].flight # NoExecution
Offered(a) == Flying(a) /\ task[actor[a].flight].handle = "Offered"

\* Fault: what was put off is looked at when the next message comes.
Draining_AtNext(a) == ~Flying(a) /\ actor[a].deferred # <<>> /\ execQ[a] # <<>>

\* What was put off while an execution flew goes before the mailboxes.
Draining(a) == ~Flying(a) /\ actor[a].deferred # <<>>

ControlDue(a, c) ==
    /\ Running(a) /\ ~Offered(a) /\ ~Draining(a)
    /\ ctrlQ[a] # <<>> /\ c = Head(ctrlQ[a])

TakesControl(a, c) == ControlDue(a, c) /\ ctrlQ' = [ctrlQ EXCEPT ![a] = Tail(@)]

\* Fault: the queue is served whether an execution flies or not.
Due_InFlight(a, c) ==
    /\ Running(a)
    /\ IF Draining(a)
       THEN c = Head(actor[a].deferred)
       ELSE ctrlQ[a] = <<>> /\ execQ[a] # <<>> /\ c = Head(execQ[a])

\* A message of the queue, while nothing flies.
Due(a, c) ==
    /\ Running(a) /\ ~Flying(a)
    /\ IF Draining(a)
       THEN c = Head(actor[a].deferred)
       ELSE ctrlQ[a] = <<>> /\ execQ[a] # <<>> /\ c = Head(execQ[a])

Takes(a, c) ==
    /\ Due(a, c)
    /\ execQ' = IF Draining(a) THEN execQ ELSE [execQ EXCEPT ![a] = Tail(@)]

\* The actor's state once the message is taken.
Taken(a) == IF Draining(a) THEN [actor[a] EXCEPT !.deferred = Tail(@)] ELSE actor[a]

TakesInFlight(a, c) ==
    /\ Running(a) /\ Flying(a) /\ ~Offered(a)
    /\ ctrlQ[a] = <<>> /\ execQ[a] # <<>> /\ c = Head(execQ[a])
    /\ execQ' = [execQ EXCEPT ![a] = Tail(@)]

Becomes(a, s) == actor' = [actor EXCEPT ![a] = s]

\* Replies, and replies dropped unsent (the caller sees SessionClosed); those whose
\* caller has gone reach nobody.  A call that has nothing to do with its answer is over.
Relays == {"View", "Execute", "SetIdleDeadline", "Cancel"}

Answers(reply) ==
    call' = [c \in Client |->
        IF c \notin DOMAIN reply \/ call[c].stage # "Sent" THEN call[c]
        ELSE IF call[c].plan \in Relays THEN Out
        ELSE [call[c] EXCEPT !.stage = "Answered", !.answer = reply[c]]]

To(callers, answer) == [c \in callers |-> answer]

Elements(q) == {q[i] : i \in DOMAIN q}

WithDropped(callers, answer, dropped) ==
    [c \in callers \cup dropped |-> IF c \in callers THEN answer ELSE "SessionClosed"]

--------------------------------------------------------------------------------
(* Release: finalize the handles, count them, close the resource, forget.       *)

\* exact: every registered handle was confirmed finalized; shut: the close was.
Decided(s, exact, shut) == shut /\ (exact \/ s.handles = {})

Released(s, exact, shut) ==
    [s EXCEPT !.physical = FALSE,
              !.handles = IF exact THEN {} ELSE @,
              !.deferred = <<>>,
              !.view = IF Decided(s, exact, shut) THEN "Closed" ELSE "Lost",
              !.tx = IF Decided(s, exact, shut) THEN @ ELSE "Unknown"]

Outcome(s, exact, shut) == IF Decided(s, exact, shut) THEN "Ok" ELSE "SessionLost"

\* Closing the resource rolls back what is left on it; an unconfirmed close may not.
Ends(a, shut) ==
    IF shut THEN unfinished' = unfinished \ {a}
    ELSE \E left \in SUBSET (unfinished \cap {a}) : unfinished' = (unfinished \ {a}) \cup left

\* Fault: a transaction nobody registered a handle for is let through.
Rejected_HandlesOnly(s, mode) == mode = "RequireNoTransaction" /\ s.handles # {}

\* RequireNoTransaction refuses at once; an Unknown transaction counts as one.
Rejected(s, mode) == mode = "RequireNoTransaction" /\ (s.handles # {} \/ s.tx # "None")

--------------------------------------------------------------------------------
(* Handlers of the queue.                                                       *)

Serves(a, c, op) == Takes(a, c) /\ call[c].op = op

\* A raised gate refuses Execute, SetIdleDeadline and Evict.
Gated(a) == actor[a].hold # "Down"

Open(a, c) ==
    /\ Serves(a, c, "Open")
    /\ \/ /\ Becomes(a, [Taken(a) EXCEPT !.physical = TRUE, !.view = "Ready", !.revision = 1])
          /\ Answers(To({c}, "Ok"))
       \/ /\ Becomes(a, Taken(a))
          /\ Answers(To({c}, "OpenFailed"))
    /\ UNCHANGED <<ctrlQ, task, unfinished>>

\* View and CapabilitySnapshot; a lost session can still be looked at.
Read(s) == IF ~s.physical /\ s.view # "Lost" THEN "SessionClosed" ELSE "Ok"

ReadView(a, c) ==
    /\ Serves(a, c, "View")
    /\ Becomes(a, Taken(a))
    /\ Answers(To({c}, Read(actor[a])))
    /\ UNCHANGED <<ctrlQ, task, unfinished>>

Refusal(a, c) ==
    IF Gated(a) /\ call[c].op \in {"Execute", "SetIdleDeadline", "Evict"} THEN "CloseRejected"
    ELSE IF ~actor[a].physical /\ call[c].op \notin {"Evict", "Resume"} THEN "SessionClosed"
    ELSE IF call[c].op \in {"Execute", "ExecuteBound"} /\ call[c].revision # actor[a].revision
         THEN "ContextRevisionMismatch"
    ELSE "Accepted"

\* Refused before anything is done.
Refuse(a, c) ==
    /\ Takes(a, c) /\ call[c].op \notin {"Open", "View"}
    /\ \/ Refusal(a, c) # "Accepted" /\ Answers(To({c}, Refusal(a, c)))
       \/ /\ Refusal(a, c) = "Accepted"
          /\ call[c].op = "Close" /\ Rejected(actor[a], call[c].mode)
          /\ Answers(To({c}, "CloseRejected"))
    /\ Becomes(a, Taken(a))
    /\ task' = IF call[c].exec = NoExecution THEN task
               ELSE [task EXCEPT ![call[c].exec].stage = "Refused"]
    /\ UNCHANGED <<ctrlQ, unfinished>>

\* Execute and ExecuteBound: the reply comes when the execution has ended.
StartExecution(a, c) ==
    /\ Takes(a, c) /\ call[c].op \in {"Execute", "ExecuteBound"}
    /\ Refusal(a, c) = "Accepted"
    /\ Becomes(a, [Taken(a) EXCEPT !.view = "Executing", !.flight = call[c].exec])
    /\ task' = [task EXCEPT ![call[c].exec].stage = "Running"]
    /\ UNCHANGED <<ctrlQ, unfinished, call>>

SetIdleDeadline(a, c) ==
    /\ Serves(a, c, "SetIdleDeadline") /\ Refusal(a, c) = "Accepted"
    /\ Becomes(a, [Taken(a) EXCEPT !.deadline = call[c].arms])
    /\ Answers(To({c}, "Ok"))
    /\ UNCHANGED <<ctrlQ, task, unfinished>>

Close(a, c) ==
    /\ Serves(a, c, "Close") /\ Refusal(a, c) = "Accepted"
    /\ ~Rejected(actor[a], call[c].mode)
    /\ \E exact, shut \in BOOLEAN :
          /\ Becomes(a, Released(Taken(a), exact, shut))
          /\ Answers(WithDropped({c}, Outcome(Taken(a), exact, shut), Elements(Taken(a).deferred)))
          /\ Ends(a, shut)
    /\ UNCHANGED <<ctrlQ, task>>

\* Whether the deadline has passed at the caller's clock is a choice.
Evict(a, c) ==
    /\ Serves(a, c, "Evict") /\ Refusal(a, c) = "Accepted"
    /\ \/ /\ Becomes(a, Taken(a))
          /\ Answers(To({c}, "NotDue"))
          /\ UNCHANGED unfinished
       \/ /\ actor[a].physical /\ actor[a].deadline
          /\ \E exact, shut \in BOOLEAN :
                /\ Becomes(a, Released(Taken(a), exact, shut))
                /\ Answers(WithDropped({c}, Outcome(Taken(a), exact, shut),
                                       Elements(Taken(a).deferred)))
                /\ Ends(a, shut)
    /\ UNCHANGED <<ctrlQ, task>>

Hold(a, c) ==
    /\ Serves(a, c, "Hold") /\ Refusal(a, c) = "Accepted"
    /\ Becomes(a, IF Gated(a) THEN Taken(a)
                  ELSE [Taken(a) EXCEPT !.hold = actor[a].view, !.view = "Closing"])
    /\ Answers(To({c}, "Ok"))
    /\ UNCHANGED <<ctrlQ, task, unfinished>>

Resume(a, c) ==
    /\ Serves(a, c, "Resume")
    /\ Becomes(a, IF Gated(a) THEN [Taken(a) EXCEPT !.hold = "Down", !.view = actor[a].hold]
                  ELSE Taken(a))
    /\ Answers(To({c}, "Ok"))
    /\ UNCHANGED <<ctrlQ, task, unfinished>>

\* While an execution flies: a look is answered, an idle scan is told there is
\* nothing to do, the rest waits.
PutOff(a, c) ==
    /\ TakesInFlight(a, c)
    /\ CASE call[c].op = "View" -> Answers(To({c}, Read(actor[a]))) /\ UNCHANGED actor
         [] call[c].op = "Evict" -> Answers(To({c}, "NotDue")) /\ UNCHANGED actor
         [] OTHER -> /\ Becomes(a, [actor[a] EXCEPT !.deferred = Append(@, c)])
                     /\ UNCHANGED call
    /\ UNCHANGED <<ctrlQ, task, unfinished>>

--------------------------------------------------------------------------------
(* Control, served while an execution flies too.                                *)

Controls(a, c, op) == TakesControl(a, c) /\ call[c].op = op

\* Where a cancellation of execution e stands.
Target(a, e) ==
    IF ~actor[a].physical THEN "SessionClosed"
    ELSE IF e = actor[a].flight
         THEN IF a \in Uncancellable THEN "Unsupported"
              ELSE IF task[e].handle = "Bound" THEN "Deliver" ELSE "Queue"
    ELSE IF task[e].on = a /\ task[e].stage \in {"Done", "Failed", "Lost"} THEN "AlreadyFinished"
    ELSE "CancelFailed"

CancelAnswered(a, c) ==
    /\ Controls(a, c, "Cancel")
    /\ Target(a, call[c].exec) \in {"SessionClosed", "Unsupported", "AlreadyFinished", "CancelFailed"}
    /\ Answers(To({c}, Target(a, call[c].exec)))
    /\ UNCHANGED <<actor, execQ, task, unfinished>>

\* Before the backend has published its cancel handle, the cancellation is queued.
CancelQueued(a, c) ==
    /\ Controls(a, c, "Cancel") /\ Target(a, call[c].exec) = "Queue"
    /\ task' = [task EXCEPT ![call[c].exec].asked = TRUE]
    /\ Answers(To({c}, "Requested"))
    /\ UNCHANGED <<actor, execQ, unfinished>>

CancelDelivered(a, c) ==
    /\ Controls(a, c, "Cancel") /\ Target(a, call[c].exec) = "Deliver"
    /\ task' = [task EXCEPT ![call[c].exec].told = TRUE]
    /\ \E answer \in {"Requested", "CancelFailed"} : Answers(To({c}, answer))
    /\ UNCHANGED <<actor, execQ, unfinished>>

\* The lease of the session's worker is lost; an execution that flies is not awaited.
InvalidateWorker(a, c) ==
    /\ Controls(a, c, "InvalidateWorker")
    /\ IF ~actor[a].physical
       THEN Answers(To({c}, "NotHere")) /\ UNCHANGED <<actor, unfinished>>
       ELSE \E exact, shut \in BOOLEAN :
              /\ Becomes(a, Released(actor[a], exact, shut))
              /\ Answers(WithDropped({c}, "Ok", Elements(actor[a].deferred)))
              /\ Ends(a, shut)
    /\ UNCHANGED <<execQ, task>>

--------------------------------------------------------------------------------
(* The execution.                                                               *)

\* The backend publishes the cancel handle of what it runs; it need not.
Publish(e) ==
    /\ task[e].stage = "Running" /\ task[e].handle = "Silent"
    /\ task' = [task EXCEPT ![e].handle = "Offered"]
    /\ UNCHANGED <<actor, execQ, ctrlQ, unfinished, call>>

\* The actor binds it, and delivers a cancellation that came before it.
Bind(a) ==
    /\ Running(a) /\ Offered(a)
    /\ task' = [task EXCEPT ![actor[a].flight].handle = "Bound",
                            ![actor[a].flight].told = @ \/ task[actor[a].flight].asked]
    /\ UNCHANGED <<actor, execQ, ctrlQ, unfinished, call>>

\* Fault: the end of the execution is looked at before a cancel handle on offer.
Lands_First(a) == Running(a) /\ Flying(a) /\ ctrlQ[a] = <<>> /\ execQ[a] = <<>>

\* The end of the execution is taken when the look at everything else found nothing: the
\* guard is what those looks saw.
Lands(a) ==
    /\ Running(a) /\ Flying(a) /\ ~Offered(a)
    /\ ctrlQ[a] = <<>> /\ execQ[a] = <<>>

Landed(a) ==
    [actor[a] EXCEPT !.flight = NoExecution,
                     !.view = IF actor[a].physical THEN "Ready" ELSE @]

\* The execution may have published its handle after the look for it and before its end was
\* found, one way or another: the channel is dropped unread, with the handle in it.  It is
\* noted where a cancellation has waited for the handle; nothing else would tell.
Unread(a) ==
    LET ended == task[actor[a].flight]
    IN IF ended.handle = "Silent" /\ ended.asked THEN {"Silent", "Missed"} ELSE {"Silent"}

\* The binding of its cancel handle goes with it.
Settles(a, stage) ==
    \E handle \in Unread(a) :
        task' = [task EXCEPT ![actor[a].flight] =
                    [NoTask EXCEPT !.stage = stage, !.on = a, !.handle = handle]]

\* What the execution has left on its resource, unless that was closed under it.
Leaves(a, left) ==
    unfinished' = IF actor[a].physical THEN (unfinished \ {a}) \cup left ELSE unfinished

\* Whoever waits for the execution that flies.
Pilot(a) == {c \in Client : call[c].op \in {"Execute", "ExecuteBound"} /\ call[c].exec = actor[a].flight}

\* The execution is over, having left work on its resource or not (left).
Over(a, s, left, stage, answer) ==
    /\ Becomes(a, s) /\ Leaves(a, left) /\ Settles(a, stage)
    /\ Answers(To(Pilot(a), answer))
    /\ UNCHANGED <<execQ, ctrlQ>>

\* What the backend says of the context it leaves.
Reported(a, tx, revision) == [Landed(a) EXCEPT !.tx = tx, !.revision = revision]

\* The backend reports its context, and the handles it opened and closed; a transaction
\* it does not report as None, or an open handle, is work left.
Complete(a) ==
    /\ Lands(a)
    /\ \E tx \in Transaction, open \in SUBSET Handle, left \in SUBSET {a}, step \in 0..1 :
          /\ actor[a].revision + step <= MaxRevision
          /\ tx = "Active" => left = {a}
          /\ tx = "None" /\ open = {} => left = {}
          /\ Over(a, [Reported(a, tx, actor[a].revision + step) EXCEPT !.handles = open],
                  left, "Done", "Ok")

\* An error other than the loss of the resource, or a panic of the task, says nothing
\* of the context; handles that contradict the account are refused as a whole.
Fail(a) ==
    /\ Lands(a)
    /\ \E left \in SUBSET {a} :
          \/ Over(a, Landed(a), left, "Failed", "Failed")
          \/ \E tx \in Transaction, step \in 0..1 :
                /\ actor[a].revision + step <= MaxRevision
                /\ Over(a, Reported(a, tx, actor[a].revision + step), left, "Failed", "Failed")

\* The resource is lost: it is released like any other, whatever came of that.
LoseResource(a) ==
    /\ Lands(a)
    /\ \E exact, shut \in BOOLEAN :
          LET s == IF actor[a].physical THEN Released(Landed(a), exact, shut) ELSE Landed(a)
          IN /\ Becomes(a, [s EXCEPT !.view = "Lost", !.tx = "Unknown"])
             /\ Answers(WithDropped(Pilot(a), "SessionLost",
                    IF actor[a].physical THEN Elements(actor[a].deferred) ELSE {}))
             /\ Ends(a, shut)
    /\ Settles(a, "Lost")
    /\ UNCHANGED <<execQ, ctrlQ>>

--------------------------------------------------------------------------------
(* The end of the actor.                                                        *)

\* Nothing flies and nothing waits.
Idle(a) ==
    /\ Running(a) /\ ~Flying(a) /\ actor[a].deferred = <<>>
    /\ execQ[a] = <<>> /\ ctrlQ[a] = <<>>

\* Fault: the loop ends and nothing is released.
Finish_Bare(a) ==
    /\ Idle(a)
    /\ Becomes(a, [actor[a] EXCEPT !.life = "Ended"])
    /\ UNCHANGED <<execQ, ctrlQ, task, unfinished, call>>

\* Nobody holds a sender and the mailbox is empty: what is open is released.
Finish(a) ==
    /\ Idle(a)
    /\ \E shut \in BOOLEAN :
          IF actor[a].physical THEN Ends(a, shut) ELSE UNCHANGED unfinished
    /\ Becomes(a, [Unborn EXCEPT !.life = "Ended"])
    /\ UNCHANGED <<execQ, ctrlQ, task, call>>

\* The driver panics in the close of the resource and takes the actor with it: whoever
\* is served, all that wait, and the execution that flies are dropped.
Crashes(a, served) ==
    /\ a \in Fragile /\ actor[a].physical
    /\ Becomes(a, [Unborn EXCEPT !.life = "Crashed", !.physical = TRUE])
    /\ execQ' = [execQ EXCEPT ![a] = <<>>]
    /\ ctrlQ' = [ctrlQ EXCEPT ![a] = <<>>]
    /\ Answers(To(served \cup Elements(actor[a].deferred) \cup Elements(execQ[a])
                  \cup Elements(ctrlQ[a]) \cup Pilot(a), "SessionClosed"))
    /\ UNCHANGED <<task, unfinished>>

\* In a message that closes the resource.
PanicServing(a, c) ==
    /\ \/ /\ Due(a, c) /\ Refusal(a, c) = "Accepted"
          /\ \/ call[c].op = "Close" /\ ~Rejected(actor[a], call[c].mode)
             \/ call[c].op = "Evict" /\ actor[a].deadline
       \/ ControlDue(a, c) /\ call[c].op = "InvalidateWorker"
    /\ Crashes(a, {c})

\* In the release of a resource an execution has lost, or of what is open at the end.
PanicReleasing(a) == (Lands(a) \/ Idle(a)) /\ Crashes(a, {})
================================================================================
