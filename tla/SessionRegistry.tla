----------------------------- MODULE SessionRegistry -----------------------------
(* The table of sessions of the process: rows, the quota of sessions, and the    *)
(* calls that go through it to the actors.  A call takes a lock only to find the *)
(* row or to change the account, and awaits the actor without one: between two   *)
(* steps of a call the others run.                                               *)
(*                                                                               *)
(* Sources: execution/runtime/registry/{registry,candidate,context}.rs,          *)
(* registry/evict.rs.  One worker ("local-runtime" everywhere).  The directory   *)
(* of sessions and the attachment tokens are not here: a commit succeeds or not. *)
EXTENDS SessionActor

CONSTANTS
    SessionLimit,
    IdleEviction,   \* the deployment gives its sessions an idle deadline
    MaxCalls,       \* bound on the calls made
    Duties,         \* the calls each client makes
    Droppable       \* clients whose future may be dropped at an await

ASSUME RegistryAssumption ==
    /\ SessionLimit \in Nat /\ MaxCalls \in Nat /\ IdleEviction \in BOOLEAN
    /\ Duties \in [Client -> SUBSET {"Register", "View", "Execute", "ExecuteBound",
                       "SetIdleDeadline", "Close", "Evict", "Cancel", "InvalidateWorker",
                       "Confirm", "Replace"}]
    /\ Droppable \subseteq Client

\* A process opens finitely many sessions.
ASSUME FiniteAssumption == IsFiniteSet(Session)

VARIABLES
    rows,           \* the registered sessions
    quota,          \* slots taken
    stale,          \* sessions of a lost worker whose slots wait for its quarantine
    begun           \* calls made so far, to bound the model

registryVars == <<rows, quota, stale>>
vars == <<actor, execQ, ctrlQ, task, unfinished, call, rows, quota, stale, begun>>

TypeOK ==
    /\ actor \in [Session -> ActorState]
    /\ execQ \in [Session -> Seq(Client)] /\ ctrlQ \in [Session -> Seq(Client)]
    /\ task \in [Execution -> TaskState]
    /\ unfinished \subseteq Session
    /\ call \in [Client -> CallState]
    /\ rows \subseteq Session /\ stale \subseteq Session
    /\ quota \in Nat /\ begun \in 0..MaxCalls

Init ==
    /\ actor = [a \in Session |-> Unborn]
    /\ execQ = [a \in Session |-> <<>>] /\ ctrlQ = [a \in Session |-> <<>>]
    /\ task = [e \in Execution |-> NoTask]
    /\ unfinished = {}
    /\ call = [c \in Client |-> Out]
    /\ rows = {} /\ stale = {} /\ quota = 0 /\ begun = 0

--------------------------------------------------------------------------------
(* Sending.                                                                      *)

Posted(c, r) ==
    IF Running(r.on) THEN [call EXCEPT ![c] = [r EXCEPT !.stage = "Sent", !.answer = "None"]]
    ELSE IF r.plan \in Relays THEN [call EXCEPT ![c] = Out]
    ELSE [call EXCEPT ![c] = [r EXCEPT !.stage = "Answered", !.answer = "UnknownSession"]]

\* A message to the queue of session r.on, which refuses it when its actor is gone.
Send(c, r) ==
    /\ call' = Posted(c, r)
    /\ execQ' = IF Running(r.on) THEN [execQ EXCEPT ![r.on] = Append(@, c)] ELSE execQ
    /\ UNCHANGED ctrlQ

SendControl(c, r) ==
    /\ call' = Posted(c, r)
    /\ ctrlQ' = IF Running(r.on) THEN [ctrlQ EXCEPT ![r.on] = Append(@, c)] ELSE ctrlQ
    /\ UNCHANGED execQ

Calls(c, what) ==
    /\ call[c].stage = "Out" /\ what \in Duties[c]
    /\ begun < MaxCalls /\ begun' = begun + 1

Answered(c, plan) == call[c].stage = "Answered" /\ call[c].plan = plan

Returns(c) == call' = [call EXCEPT ![c] = Out]

\* Fault: the slot goes back whether the row was still there or not.
Forget_Again(a) == rows' = rows \ {a} /\ quota' = quota - 1

\* forget: only a row that is still there gives its slot back.
Forget(a) ==
    /\ rows' = rows \ {a}
    /\ quota' = IF a \in rows THEN quota - 1 ELSE quota

\* Ids are fresh: which of the sessions yet unborn it is does not matter.
Fresh == CHOOSE a \in Session : actor[a].life = "Unborn"

\* An actor for session r.cand, and the Open that is its first message.
Spawn(c, r, deadline) ==
    /\ actor[r.cand].life = "Unborn" /\ r.cand = Fresh
    /\ quota < SessionLimit /\ quota' = quota + 1
    /\ actor' = [actor EXCEPT ![r.cand] = [Unborn EXCEPT !.life = "Running", !.deadline = deadline]]
    /\ call' = [call EXCEPT ![c] = [r EXCEPT !.op = "Open", !.on = r.cand, !.stage = "Sent",
                               !.answer = "None"]]
    /\ execQ' = [execQ EXCEPT ![r.cand] = <<c>>]
    /\ UNCHANGED <<ctrlQ, task, unfinished>>

--------------------------------------------------------------------------------
(* The calls.                                                                    *)

Register(c, a) ==
    /\ Calls(c, "Register")
    /\ Spawn(c, [Out EXCEPT !.plan = "Register", !.cand = a], IdleEviction)
    /\ UNCHANGED <<rows, stale>>

Registered(c) ==
    /\ Answered(c, "Register")
    /\ IF call[c].answer = "Ok" THEN rows' = rows \cup {call[c].cand} /\ UNCHANGED quota
       ELSE quota' = quota - 1 /\ UNCHANGED rows
    /\ Returns(c)
    /\ UNCHANGED <<actorVars, stale>>

CallView(c, a) ==
    /\ Calls(c, "View") /\ a \in rows
    /\ Send(c, [Out EXCEPT !.plan = "View", !.op = "View", !.on = a])
    /\ UNCHANGED <<actor, task, unfinished, registryVars>>

FreshExecution == CHOOSE e \in Execution : task[e].stage = "None"

\* The caller expects the revision it has last seen, which is the one of this moment.
CallExecute(c, a, op, e) ==
    /\ Calls(c, op) /\ op \in {"Execute", "ExecuteBound"}
    /\ a \in rows /\ task[e].stage = "None" /\ e = FreshExecution
    /\ Send(c, [Out EXCEPT !.plan = "Execute", !.op = op, !.on = a, !.exec = e,
                           !.revision = actor[a].revision])
    /\ task' = [task EXCEPT ![e].stage = IF Running(a) THEN "Posted" ELSE "Refused", ![e].on = a]
    /\ UNCHANGED <<actor, unfinished, registryVars>>

CallSetIdleDeadline(c, a, arms) ==
    /\ Calls(c, "SetIdleDeadline") /\ a \in rows
    /\ Send(c, [Out EXCEPT !.plan = "SetIdleDeadline", !.op = "SetIdleDeadline", !.on = a,
                           !.arms = arms])
    /\ UNCHANGED <<actor, task, unfinished, registryVars>>

CallCancel(c, a, e) ==
    /\ Calls(c, "Cancel") /\ a \in rows /\ task[e].on = a
    /\ SendControl(c, [Out EXCEPT !.plan = "Cancel", !.op = "Cancel", !.on = a, !.exec = e])
    /\ UNCHANGED <<actor, task, unfinished, registryVars>>

CallClose(c, a, mode) ==
    /\ Calls(c, "Close") /\ a \in rows
    /\ Send(c, [Out EXCEPT !.plan = "Close", !.op = "Close", !.on = a, !.mode = mode])
    /\ UNCHANGED <<actor, task, unfinished, registryVars>>

\* A close that went through, to whatever end, gives the slot back.
Closed(c) ==
    /\ Answered(c, "Close")
    /\ IF call[c].answer \in {"Ok", "SessionLost"} THEN Forget(call[c].on)
       ELSE UNCHANGED <<rows, quota>>
    /\ Returns(c)
    /\ UNCHANGED <<actorVars, stale>>

--------------------------------------------------------------------------------
(* Scans: the rows are read once, then visited one after the other.              *)

Scan(c, what) ==
    /\ Calls(c, what) /\ what \in {"Evict", "InvalidateWorker"} /\ rows # {}
    /\ call' = [call EXCEPT ![c] = [Out EXCEPT !.plan = what, !.left = rows, !.stage = "Choosing"]]
    /\ UNCHANGED <<actorVars, registryVars>>

Visit(c, a) ==
    /\ call[c].stage = "Choosing" /\ a \in call[c].left
    /\ LET r == [call[c] EXCEPT !.on = a, !.left = @ \ {a}]
       IN \/ call[c].plan = "Evict" /\ Send(c, [r EXCEPT !.op = "Evict"])
          \/ call[c].plan = "InvalidateWorker" /\ SendControl(c, [r EXCEPT !.op = "InvalidateWorker"])
    /\ UNCHANGED <<actor, task, unfinished, registryVars>>

MovesOn(c, r) == call' = [call EXCEPT ![c] = [r EXCEPT !.stage = "Choosing", !.on = NoSession]]

\* Fault: only a clean eviction takes the row out.
Evicted_CleanOnly(c) ==
    /\ Answered(c, "Evict")
    /\ IF call[c].answer = "Ok" THEN Forget(call[c].on) ELSE UNCHANGED <<rows, quota>>
    /\ MovesOn(c, call[c])
    /\ UNCHANGED <<actorVars, stale>>

\* Evicted, or lost while it was: the row goes.  Anything else leaves it.
Evicted(c) ==
    /\ Answered(c, "Evict")
    /\ IF call[c].answer \in {"Ok", "SessionLost"} THEN Forget(call[c].on)
       ELSE UNCHANGED <<rows, quota>>
    /\ MovesOn(c, call[c])
    /\ UNCHANGED <<actorVars, stale>>

\* Delivered, whatever was answered: the row goes and its slot stays taken.
Invalidated(c) ==
    /\ Answered(c, "InvalidateWorker")
    /\ IF call[c].answer \in {"Ok", "NotHere"}
       THEN /\ rows' = rows \ {call[c].on}
            /\ MovesOn(c, [call[c] EXCEPT !.lost = @ \cup (rows \cap {call[c].on})])
       ELSE UNCHANGED rows /\ MovesOn(c, call[c])
    /\ UNCHANGED <<actorVars, quota, stale>>

ScanDone(c) ==
    /\ call[c].stage = "Choosing" /\ call[c].plan \in {"Evict", "InvalidateWorker"}
    /\ call[c].left = {}
    /\ stale' = stale \cup call[c].lost
    /\ Returns(c)
    /\ UNCHANGED <<actorVars, rows, quota>>

\* The lost worker is known to be isolated: the slots it kept are free.
ConfirmQuarantined(c) ==
    /\ Calls(c, "Confirm") /\ stale # {}
    /\ quota' = quota - Cardinality(stale)
    /\ stale' = {}
    /\ UNCHANGED <<actorVars, call, rows>>

--------------------------------------------------------------------------------
(* Replacement: a candidate is opened beside the old session, which is gated,    *)
(* and published once the switch is committed and the old one is closed.  Until  *)
(* the commit everything is undone; after it nothing is.                         *)

\* The step of a replacement: what it last sent, and that it is answered.
AtStep(c, plan, op) == Answered(c, plan) /\ call[c].op = op

CallReplace(c, a) ==
    /\ Calls(c, "Replace") /\ a \in rows
    /\ Send(c, [Out EXCEPT !.plan = "Replace", !.op = "View", !.on = a, !.old = a])
    /\ UNCHANGED <<actor, task, unfinished, registryVars>>

OpenCandidate(c, a) ==
    /\ AtStep(c, "Replace", "View") /\ call[c].answer = "Ok"
    /\ Spawn(c, [call[c] EXCEPT !.cand = a], FALSE)
    /\ UNCHANGED <<rows, stale>>

\* The view is refused or shows another revision, the directory knows no owner, no
\* slot is left, or the candidate does not open.
AbandonReplace(c) ==
    /\ \/ AtStep(c, "Replace", "View") /\ UNCHANGED quota
       \/ AtStep(c, "Replace", "Open") /\ call[c].answer # "Ok" /\ quota' = quota - 1
    /\ Returns(c)
    /\ UNCHANGED <<actorVars, rows, stale>>

HoldOld(c) ==
    /\ AtStep(c, "Replace", "Open") /\ call[c].answer = "Ok" /\ call[c].old \in rows
    /\ Send(c, [call[c] EXCEPT !.op = "Hold", !.on = call[c].old])
    /\ UNCHANGED <<actor, task, unfinished, registryVars>>

\* Fault: the candidate is published as soon as the switch is committed.
RetireOld_Later(c) ==
    /\ AtStep(c, "Replace", "Hold") /\ call[c].answer = "Ok"
    /\ call' = [call EXCEPT ![c].stage = "Publishing"]
    /\ UNCHANGED <<actorVars, registryVars>>

\* The directory has committed: the old session is closed, if it is still there.
RetireOld(c) ==
    /\ AtStep(c, "Replace", "Hold") /\ call[c].answer = "Ok"
    /\ LET r == [call[c] EXCEPT !.op = "Close", !.on = call[c].old]
       IN IF call[c].old \in rows THEN Send(c, r)
          ELSE call' = [call EXCEPT ![c] = [r EXCEPT !.stage = "Publishing"]]
               /\ UNCHANGED <<execQ, ctrlQ>>
    /\ UNCHANGED <<actor, task, unfinished, registryVars>>

OldRetired(c) ==
    /\ AtStep(c, "Replace", "Close")
    /\ IF call[c].answer \in {"Ok", "SessionLost"} THEN Forget(call[c].old)
       ELSE UNCHANGED <<rows, quota>>
    /\ call' = [call EXCEPT ![c].stage = "Publishing"]
    /\ UNCHANGED <<actorVars, stale>>

PublishCandidate(c) ==
    /\ call[c].stage = "Publishing"
    /\ rows' = rows \cup {call[c].cand}
    /\ Returns(c)
    /\ UNCHANGED <<actorVars, quota, stale>>

\* The old session could not be gated, or the directory refused: the candidate goes.
UndoReplace(c) ==
    /\ \/ AtStep(c, "Replace", "Open") /\ call[c].answer = "Ok" /\ call[c].old \notin rows
       \/ AtStep(c, "Replace", "Hold")
    /\ LET gated == call[c].op = "Hold" /\ call[c].answer = "Ok"
       IN Send(c, [call[c] EXCEPT !.plan = IF gated THEN "UndoHeld" ELSE "Undo",
                                  !.op = "Close", !.on = call[c].cand])
    /\ UNCHANGED <<actor, task, unfinished, registryVars>>

\* Its slot is refunded whatever became of it, and the gate comes down.
CandidateDestroyed(c) ==
    /\ \/ AtStep(c, "Undo", "Close") \/ AtStep(c, "UndoHeld", "Close")
    /\ quota' = quota - 1
    /\ IF call[c].plan = "UndoHeld" /\ call[c].old \in rows
       THEN Send(c, [call[c] EXCEPT !.op = "Resume", !.on = call[c].old, !.cand = NoSession])
       ELSE Returns(c) /\ UNCHANGED <<execQ, ctrlQ>>
    /\ UNCHANGED <<actor, task, unfinished, rows, stale>>

Resumed(c) ==
    /\ AtStep(c, "UndoHeld", "Resume")
    /\ Returns(c)
    /\ UNCHANGED <<actorVars, registryVars>>

\* The caller's future is dropped where it waits for an actor.  Its message stays.
GiveUp(c) ==
    /\ c \in Droppable /\ call[c].stage \in {"Sent", "Answered"}
    /\ call' = [call EXCEPT ![c].stage = "Gone", ![c].answer = "None"]
    /\ UNCHANGED actorVars

--------------------------------------------------------------------------------
(* The whole.                                                                    *)

\* Somebody still has a sender to the actor: the table, or a call that is not over.
Waits(c) == call[c].stage \notin {"Out", "Gone"}
Held(a) ==
    \/ a \in rows
    \/ \E c \in Client : Waits(c) /\ a \in {call[c].on, call[c].cand} \cup call[c].left

Controlled(a, c) ==
    /\ ControlDue(a, c)
    /\ \/ CancelAnswered(a, c) \/ CancelQueued(a, c) \/ CancelDelivered(a, c)
       \/ InvalidateWorker(a, c)

Queued(a, c) ==
    \/ /\ Due(a, c)
       /\ \/ Open(a, c) \/ ReadView(a, c) \/ Refuse(a, c) \/ StartExecution(a, c)
          \/ SetIdleDeadline(a, c) \/ Close(a, c) \/ Evict(a, c) \/ Hold(a, c) \/ Resume(a, c)
    \/ PutOff(a, c)

\* With every sender gone the closed mailboxes are always ready, and the end of the
\* execution is never looked at.
Ended(a) == Held(a) /\ (Complete(a) \/ Fail(a) \/ LoseResource(a))

Finished(a) == ~Held(a) /\ Finish(a)

Continues(c) ==
    \/ Registered(c) \/ Closed(c) \/ Evicted(c) \/ Invalidated(c) \/ ScanDone(c)
    \/ AbandonReplace(c) \/ HoldOld(c) \/ RetireOld(c) \/ OldRetired(c) \/ PublishCandidate(c)
    \/ UndoReplace(c) \/ CandidateDestroyed(c) \/ Resumed(c)
    \/ \E a \in Session : Visit(c, a) \/ OpenCandidate(c, a)

Begins(c) ==
    \/ ConfirmQuarantined(c)
    \/ \E what \in {"Evict", "InvalidateWorker"} : Scan(c, what)
    \/ \E a \in Session :
          \/ Register(c, a) \/ CallView(c, a) \/ CallReplace(c, a)
          \/ \E arms \in BOOLEAN : CallSetIdleDeadline(c, a, arms)
          \/ \E mode \in {"RequireNoTransaction", "RollbackAndClose"} : CallClose(c, a, mode)
          \/ \E e \in Execution :
                \/ CallCancel(c, a, e)
                \/ \E op \in {"Execute", "ExecuteBound"} : CallExecute(c, a, op, e)

GoesOn(c) == call[c].stage \notin {"Out", "Sent", "Gone"} /\ Continues(c) /\ UNCHANGED begun

\* A step of an actor or of a backend leaves the table alone.
Apart(A) == A /\ UNCHANGED <<registryVars, begun>>

\* What goes on by itself once it can.
Proceeds ==
    \/ \E c \in Client : GoesOn(c)
    \/ \E a \in Session :
          \/ \E c \in Client : Apart(Controlled(a, c)) \/ Apart(Queued(a, c))
          \/ Apart(Bind(a)) \/ Apart(Ended(a)) \/ Apart(Finished(a))

Next ==
    \/ Proceeds
    \/ \E c \in Client : Begins(c) \/ Apart(GiveUp(c)) \/ \E a \in Session : Apart(PanicServing(a, c))
    \/ \E a \in Session : Held(a) = Flying(a) /\ Apart(PanicReleasing(a))
    \/ \E e \in Execution : Apart(Publish(e))

Spec == Init /\ [][Next]_vars

\* The runtime does not stop while an answered call can go on, an actor has something to
\* take, or an execution can end.  Calls are finitely many, so nothing more is needed.
Fairness == WF_vars(Proceeds)

FairSpec == Spec /\ Fairness

--------------------------------------------------------------------------------
(* Properties.                                                                   *)

\* Two executions never run on one session at the same time, whatever was put off,
\* replaced or invalidated meanwhile.
OneExecutionAtATime ==
    \A e, f \in Execution :
        task[e].stage = "Running" /\ task[f].stage = "Running" /\ task[e].on = task[f].on => e = f

\* Every slot taken is one session in the table, waiting for its quarantine, or in the
\* hands of a call, dropped ones included: no path gives a slot back twice or keeps one.
Charged == {call[c].cand : c \in Client} \ {NoSession}
Detained == UNION {call[c].lost : c \in Client}
QuotaCountsSessions == quota = Cardinality(rows \cup stale \cup Charged \cup Detained)

\* A session in the table has its resource, unless a call that closed it has yet to take
\* it out (or was dropped), its actor has crashed, or an execution has lost the resource:
\* nobody takes that row out, though registry.rs:766-769 says of a lost session that its
\* row would be left behind and its slot stuck, and removes it for that.
RowsHaveResources ==
    \A a \in rows :
        \/ actor[a].physical \/ actor[a].life = "Crashed"
        \/ \E e \in Execution : task[e].on = a /\ task[e].stage = "Lost"
        \/ \E c \in Client :
              /\ call[c].on = a /\ call[c].op \in {"Close", "Evict", "InvalidateWorker"}
              /\ call[c].stage \in {"Answered", "Gone"}

\* A cancellation accepted before the actor had the handle is passed on with it: an execution
\* whose handle the actor has, or could have had when it last looked for one, does not end
\* with an accepted cancellation untold.  A handle that comes after that look is not covered.
OfferedHandleTakesCancel ==
    [][\A e \in Execution :
          task[e].stage = "Running" /\ task'[e].stage # "Running"
          => (task[e].asked /\ task[e].handle \in {"Offered", "Bound"} => task[e].told)]_vars

\* What cancel.rs:36-37 and 116-118 promise: once the backend has published the handle, the
\* accepted cancellation is delivered.  Refuted: the last look for the handle may have come
\* before its publication, and the execution ends with the handle unread.
PublishedHandleTakesCancel ==
    [][\A e \in Execution :
          task[e].stage = "Running" /\ task'[e].stage # "Running"
          => (/\ task[e].asked
              /\ task[e].handle \in {"Offered", "Bound"} \/ task'[e].handle = "Missed"
              => task[e].told)]_vars

\* A close that asked for no transaction and went through ended no work: there was none,
\* or an execution that failed had left it unreported.
PoliteCloseEndsNothing ==
    [][\A c \in Client :
          /\ call[c].op = "Close" /\ call[c].mode = "RequireNoTransaction"
          /\ call[c].stage = "Sent" /\ call'[c].answer \in {"Ok", "SessionLost"}
          => \/ call[c].on \notin unfinished
             \/ \E e \in Execution : task[e].on = call[c].on /\ task[e].stage = "Failed"]_vars

\* When the candidate of a replacement can be found, the resource of the old session is
\* closed, unless its actor crashed over it: never are both at work.
OldIsClosedBeforeNewIsFound ==
    [][\A c \in Client :
          call[c].plan = "Replace" /\ call[c].cand \in rows' \ rows
          => LET old == actor[call[c].old] IN ~old.physical \/ old.life = "Crashed"]_vars

\* Every message is answered, in an execution that flies and in a crash too.
EveryMessageIsAnswered ==
    \A c \in Client : call[c].stage = "Sent" ~> call[c].stage # "Sent"

\* A session nobody can reach any more, as after a call that was dropped, does not keep
\* its resource.
UnreachableIsClosed ==
    \A a \in Session :
        actor[a].physical /\ ~Held(a) ~> ~actor[a].physical \/ actor[a].life = "Crashed"
================================================================================
