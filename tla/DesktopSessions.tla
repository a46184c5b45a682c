---------------------------- MODULE DesktopSessions ----------------------------
(* DesktopSessionBackend: how the desktop host opens, executes on, reuses and   *)
(* closes physical connections for concurrent sessions, next to the periodic    *)
(* reclaimer.  Each process is one tokio task; a label of pc is a point where   *)
(* the code awaits (a driver call or a table lock), and an action is the code   *)
(* between two such points.  The lease ledger is ProductionLeases.              *)
(*                                                                              *)
(* Sources: platform/session_backend.rs and session_backend/{opening,release,   *)
(* execution}.rs.  The session actor above serialises the calls of one session, *)
(* so a session is one process; drivers answer with any outcome their contract  *)
(* allows.                                                                      *)
EXTENDS ProductionLeases

CONSTANTS
    Session,        \* logical sessions; a closed one may be opened again as a new one
    Reclaimer,      \* the idle reclaimer's task
    Reusable,       \* the connections whose driver declares ReusableAfterReset
    NoResource

Task == Session \cup {Reclaimer}

ASSUME DesktopAssumption ==
    /\ Reclaimer \notin Session
    /\ Reusable \subseteq Connection
    /\ NoResource \notin Resource
    /\ Session \cap {"free", "pool", "host"} = {}

VARIABLES
    phys,       \* what the driver has: no connection, one open, or one whose
                \* close was never confirmed
    mapped,     \* the ids in `resources`
    bound,      \* `by_session`
    quota,      \* the sessions whose LogicalSessionPermit is held
    pc, batch,  \* where a task is; the ids it still has to retire or verify
    lease,      \* the resource a task is working on or a session owns
    request     \* the pool key and purpose a session was opened with

hostVars == <<phys, mapped, bound, quota>>
taskVars == <<pc, batch, lease, request>>
vars == <<rows, pools, phys, mapped, bound, quota, pc, batch, lease, request>>

SessionLabel == {"closed", "plan", "retire", "retireClose", "retireRemove", "claim",
                 "lookup", "acquire", "refusedClose", "observe", "observeClose",
                 "openRemove", "retain", "insert", "bind", "open", "closing",
                 "parked", "unbind", "close", "closeRemove"}
ReclaimerLabel == {"idle", "retire", "retireClose", "retireRemove", "verifyPlan",
                   "verify", "verifyClose", "verifyRemove"}

TypeOK ==
    /\ LedgerTypeOK
    /\ phys \in [Resource -> {"absent", "open", "unsure"}]
    /\ mapped \subseteq Resource
    /\ bound \in [Session -> Resource \cup {NoResource}]
    /\ quota \subseteq Session
    /\ pc \in [Task -> SessionLabel \cup ReclaimerLabel]
    /\ \A t \in Task : pc[t] \in IF t = Reclaimer THEN ReclaimerLabel ELSE SessionLabel
    /\ batch \in [Task -> SUBSET Resource]
    /\ lease \in [Task -> Resource \cup {NoResource}]
    /\ request \in [Session -> [key : Key, purpose : Purpose]]

Init ==
    /\ LedgerInit
    /\ phys = [r \in Resource |-> "absent"]
    /\ mapped = {}
    /\ bound = [s \in Session |-> NoResource]
    /\ quota = {}
    /\ pc = [t \in Task |-> IF t = Reclaimer THEN "idle" ELSE "closed"]
    /\ batch = [t \in Task |-> {}]
    /\ lease = [t \in Task |-> NoResource]
    /\ request \in [Session -> [key : Key, purpose : {"Metadata"}]]

--------------------------------------------------------------------------------
Goto(t, label) == pc' = [pc EXCEPT ![t] = label]

\* pool_policy of open_resource.
PolicyOf(req) ==
    IF req.purpose = "Metadata" /\ ConnectionOf[req.key] \in Reusable
    THEN "stateful" ELSE "stateless"

\* A fresh uuid: an id nothing refers to any more stands for it.
Fresh(r) ==
    /\ ~Registered(r) /\ phys[r] = "absent" /\ r \notin mapped
    /\ \A t \in Task : lease[t] # r /\ r \notin batch[t]
    /\ \A s \in Session : bound[s] # r

\* close_resource answers Closed, or anything else: CloseUnconfirmed, an error or
\* a timeout, after which the connection may or may not be gone.
DriverClose(r, confirmed) ==
    phys' = [phys EXCEPT ![r] = IF confirmed THEN "absent" ELSE "unsure"]

\* unbind_live_resource_by_resource drops every binding to the resource.
Unbind(r) ==
    bound' = [s \in Session |-> IF bound[s] = r THEN NoResource ELSE bound[s]]

\* The task's call returns: it gives up its resource, and its permit is dropped.
Finish(s) ==
    /\ Goto(s, "closed")
    /\ lease' = [lease EXCEPT ![s] = NoResource]
    /\ quota' = quota \ {s}

--------------------------------------------------------------------------------
(* retire_idle, called by an opening session and by the reclaimer.              *)

\* Fault: the loop does not advance past the id it has handled.
RetireNext_SameId(t) ==
    /\ pc[t] = "retire"
    /\ \E r \in batch[t] :
         /\ r \in mapped /\ Registered(r)
         /\ Returning(r, FALSE, TRUE)
         /\ lease' = [lease EXCEPT ![t] = r]
         /\ Goto(t, "retireClose")
    /\ UNCHANGED <<hostVars, batch, request>>

RetireNext(t) ==
    /\ pc[t] = "retire"
    /\ \E r \in batch[t] :
         /\ batch' = [batch EXCEPT ![t] = @ \ {r}]
         /\ IF r \in mapped /\ Registered(r)
            THEN /\ Returning(r, FALSE, TRUE)
                 /\ lease' = [lease EXCEPT ![t] = r]
                 /\ Goto(t, "retireClose")
            ELSE UNCHANGED <<rows, pools, lease, pc>>
    /\ UNCHANGED <<hostVars, request>>

RetireAnswer(t) ==
    /\ pc[t] = "retireClose"
    /\ \E confirmed \in BOOLEAN :
         /\ DriverClose(lease[t], confirmed)
         /\ Closed(lease[t], confirmed)
         /\ IF confirmed
            THEN Goto(t, "retireRemove") /\ UNCHANGED lease
            ELSE Goto(t, "retire") /\ lease' = [lease EXCEPT ![t] = NoResource]
    /\ UNCHANGED <<mapped, bound, quota, batch, request>>

RetireRemove(t) ==
    /\ pc[t] = "retireRemove"
    /\ mapped' = mapped \ {lease[t]}
    /\ lease' = [lease EXCEPT ![t] = NoResource]
    /\ Goto(t, "retire")
    /\ UNCHANGED <<rows, pools, phys, bound, quota, batch, request>>

RetireDone(t) ==
    /\ pc[t] = "retire" /\ batch[t] = {}
    /\ Goto(t, IF t = Reclaimer THEN "verifyPlan" ELSE "claim")
    /\ UNCHANGED <<rows, pools, hostVars, batch, lease, request>>

--------------------------------------------------------------------------------
(* open_resource.                                                               *)

\* The profile is read and the logical session (and editor) quota reserved.
OpenBegin(s, k, purpose) ==
    /\ pc[s] = "closed"
    /\ request' = [request EXCEPT ![s] = [key |-> k, purpose |-> purpose]]
    /\ quota' = quota \cup {s}
    /\ Goto(s, "plan")
    /\ UNCHANGED <<rows, pools, phys, mapped, bound, batch, lease>>

\* describe_resource, the tunnel or acquire_resource fails.
OpenAbandon(s) ==
    /\ pc[s] \in {"plan", "acquire"}
    /\ Finish(s)
    /\ UNCHANGED <<rows, pools, phys, mapped, bound, batch, request>>

OpenPlan(s) ==
    /\ pc[s] = "plan"
    /\ batch' = [batch EXCEPT ![s] = RetireBatch(request[s].key)]
    /\ IdleToRetire(request[s].key)
    /\ Goto(s, "retire")
    /\ UNCHANGED <<hostVars, lease, request>>

\* claim_idle is only asked for a parkable metadata lease.
Reuses(s) == PolicyOf(request[s]) = "stateful" /\ Claimable(request[s].key) # {}

OpenClaim(s) ==
    /\ pc[s] = "claim" /\ Reuses(s)
    /\ \E r \in Claimable(request[s].key) :
         /\ ClaimIdle(request[s].key, r)
         /\ lease' = [lease EXCEPT ![s] = r]
    /\ Goto(s, "lookup")
    /\ UNCHANGED <<hostVars, batch, request>>

OpenNoIdle(s) ==
    /\ pc[s] = "claim" /\ ~Reuses(s)
    /\ Goto(s, "acquire")
    /\ UNCHANGED <<rows, pools, hostVars, batch, lease, request>>

\* self.resource(idle).await? : a claimed id that is not mapped fails the open.
OpenLookup(s) ==
    /\ pc[s] = "lookup"
    /\ IF lease[s] \in mapped
       THEN Goto(s, "observe") /\ UNCHANGED <<lease, quota>>
       ELSE Finish(s)
    /\ UNCHANGED <<rows, pools, phys, mapped, bound, batch, request>>

\* acquire_resource answers, and the ledger registers the connection before the
\* task awaits again; a conflicting pool policy makes it close the connection.
OpenAcquire(s) ==
    /\ pc[s] = "acquire"
    /\ \E r \in Resource :
         /\ Fresh(r)
         /\ phys'  = [phys EXCEPT ![r] = "open"]
         /\ lease' = [lease EXCEPT ![s] = r]
         /\ IF DeclareAccepts(request[s].key, PolicyOf(request[s]))
            THEN /\ Opened(r, request[s].key, request[s].purpose, PolicyOf(request[s]))
                 /\ Goto(s, "observe")
            ELSE /\ UNCHANGED <<rows, pools>>
                 /\ Goto(s, "refusedClose")
    /\ UNCHANGED <<mapped, bound, quota, batch, request>>

\* Fault: the refused connection is dropped whatever the driver answered.
OpenRefusedAnswer_Drops(s) ==
    /\ pc[s] = "refusedClose"
    /\ \E confirmed \in BOOLEAN : DriverClose(lease[s], confirmed)
    /\ Finish(s)
    /\ UNCHANGED <<rows, pools, mapped, bound, batch, request>>

\* The refused connection is closed; if that is not confirmed, retain_quarantined
\* keeps it in `resources`, without a row in the ledger.
OpenRefusedAnswer(s) ==
    /\ pc[s] = "refusedClose"
    /\ \E confirmed \in BOOLEAN :
         /\ DriverClose(lease[s], confirmed)
         /\ mapped' = IF confirmed THEN mapped ELSE mapped \cup {lease[s]}
    /\ Finish(s)
    /\ UNCHANGED <<rows, pools, bound, batch, request>>

OpenObserved(s) ==
    /\ pc[s] = "observe"
    /\ Goto(s, "insert")
    /\ UNCHANGED <<rows, pools, hostVars, batch, lease, request>>

OpenObserveFails(s) ==
    /\ pc[s] = "observe"
    /\ Returning(lease[s], FALSE, TRUE)
    /\ Goto(s, "observeClose")
    /\ UNCHANGED <<hostVars, batch, lease, request>>

OpenObserveAnswer(s) ==
    /\ pc[s] = "observeClose"
    /\ \E confirmed \in BOOLEAN :
         /\ DriverClose(lease[s], confirmed)
         /\ Closed(lease[s], confirmed)
         /\ Goto(s, IF confirmed THEN "openRemove" ELSE "retain")
    /\ UNCHANGED <<mapped, bound, quota, batch, lease, request>>

OpenRemove(s) ==
    /\ pc[s] = "openRemove"
    /\ mapped' = mapped \ {lease[s]}
    /\ Finish(s)
    /\ UNCHANGED <<rows, pools, phys, bound, batch, request>>

OpenRetain(s) ==
    /\ pc[s] = "retain"
    /\ mapped' = mapped \cup {lease[s]}
    /\ Finish(s)
    /\ UNCHANGED <<rows, pools, phys, bound, batch, request>>

OpenInsert(s) ==
    /\ pc[s] = "insert"
    /\ mapped' = mapped \cup {lease[s]}
    /\ Goto(s, "bind")
    /\ UNCHANGED <<rows, pools, phys, bound, quota, batch, lease, request>>

\* Fault: the session is opened without its row in by_session.
OpenBind_Skipped(s) ==
    /\ pc[s] = "bind"
    /\ Goto(s, "open")
    /\ UNCHANGED <<rows, pools, hostVars, batch, lease, request>>

\* bind_live_resource: only a resource still in the table is bound.
OpenBind(s) ==
    /\ pc[s] = "bind"
    /\ bound' = IF lease[s] \in mapped THEN [bound EXCEPT ![s] = lease[s]] ELSE bound
    /\ Goto(s, "open")
    /\ UNCHANGED <<rows, pools, phys, mapped, quota, batch, lease, request>>

--------------------------------------------------------------------------------
(* execute_resource and close_resource_lease.                                   *)

Execute(s) ==
    /\ pc[s] = "open" /\ lease[s] \in mapped
    /\ Executing(lease[s])
    /\ UNCHANGED <<hostVars, taskVars>>

CloseBegin(s) ==
    /\ pc[s] = "open" /\ lease[s] \in mapped
    /\ Goto(s, "closing")
    /\ UNCHANGED <<rows, pools, hostVars, batch, lease, request>>

\* Protocol, cancels, handles or transaction unresolved: never offered to a pool.
CloseUnresolved(s) ==
    /\ pc[s] = "closing"
    /\ Unbind(lease[s])
    /\ quota' = quota \ {s}
    /\ Returning(lease[s], FALSE, TRUE)
    /\ Goto(s, "close")
    /\ UNCHANGED <<phys, mapped, batch, lease, request>>

\* reset_resource answers; the row is parked or starts closing at once, while the
\* session's binding is dropped only in the next step.
CloseReset(s) ==
    /\ pc[s] = "closing"
    /\ \E clean \in BOOLEAN :
         LET admits == request[s].purpose # "FixedSession"
         IN /\ Returning(lease[s], clean, admits)
            /\ Goto(s, IF ReturnParks(lease[s], clean, admits) THEN "parked" ELSE "unbind")
    /\ UNCHANGED <<hostVars, batch, lease, request>>

CloseParked(s) ==
    /\ pc[s] = "parked"
    /\ Unbind(lease[s])
    /\ Finish(s)
    /\ UNCHANGED <<rows, pools, phys, mapped, batch, request>>

\* Fault: the connection is closed with the session still bound to it.
CloseUnbind_Skipped(s) ==
    /\ pc[s] = "unbind"
    /\ Goto(s, "close")
    /\ UNCHANGED <<rows, pools, hostVars, batch, lease, request>>

CloseUnbind(s) ==
    /\ pc[s] = "unbind"
    /\ Unbind(lease[s])
    /\ Goto(s, "close")
    /\ UNCHANGED <<rows, pools, phys, mapped, quota, batch, lease, request>>

\* Fault: the branch for an unconfirmed close forgets the logical permit.
CloseAnswer_KeepsQuota(s) ==
    /\ pc[s] = "close"
    /\ \E confirmed \in BOOLEAN :
         /\ DriverClose(lease[s], confirmed)
         /\ Closed(lease[s], confirmed)
         /\ quota' = IF confirmed THEN quota \ {s} ELSE quota
         /\ IF confirmed
            THEN Goto(s, "closeRemove") /\ UNCHANGED lease
            ELSE Goto(s, "closed") /\ lease' = [lease EXCEPT ![s] = NoResource]
    /\ UNCHANGED <<mapped, bound, batch, request>>

CloseAnswer(s) ==
    /\ pc[s] = "close"
    /\ \E confirmed \in BOOLEAN :
         /\ DriverClose(lease[s], confirmed)
         /\ Closed(lease[s], confirmed)
         /\ quota' = quota \ {s}
         /\ IF confirmed
            THEN Goto(s, "closeRemove") /\ UNCHANGED lease
            ELSE Goto(s, "closed") /\ lease' = [lease EXCEPT ![s] = NoResource]
    /\ UNCHANGED <<mapped, bound, batch, request>>

CloseRemove(s) ==
    /\ pc[s] = "closeRemove"
    /\ mapped' = mapped \ {lease[s]}
    /\ Finish(s)
    /\ UNCHANGED <<rows, pools, phys, bound, batch, request>>

--------------------------------------------------------------------------------
(* reclaim_idle_resources, one periodic task.                                   *)

Sweep ==
    /\ pc[Reclaimer] = "idle"
    /\ batch' = [batch EXCEPT ![Reclaimer] = RetireBatch(NoKey)]
    /\ IdleToRetire(NoKey)
    /\ Goto(Reclaimer, "retire")
    /\ UNCHANGED <<hostVars, lease, request>>

VerifyPlan ==
    /\ pc[Reclaimer] = "verifyPlan"
    /\ batch' = [batch EXCEPT ![Reclaimer] = VerifyBatch]
    /\ QuarantineToVerify
    /\ Goto(Reclaimer, "verify")
    /\ UNCHANGED <<hostVars, lease, request>>

VerifyNext ==
    /\ pc[Reclaimer] = "verify"
    /\ \E r \in batch[Reclaimer] :
         /\ batch' = [batch EXCEPT ![Reclaimer] = @ \ {r}]
         /\ IF r \in mapped
            THEN lease' = [lease EXCEPT ![Reclaimer] = r] /\ Goto(Reclaimer, "verifyClose")
            ELSE UNCHANGED <<lease, pc>>
    /\ UNCHANGED <<rows, pools, hostVars, request>>

\* Fault: the 10 s deadline counts as a confirmed close.
VerifyAnswer_TimeoutConfirms ==
    /\ pc[Reclaimer] = "verifyClose"
    /\ \E confirmed \in BOOLEAN : DriverClose(lease[Reclaimer], confirmed)
    /\ Closed(lease[Reclaimer], TRUE)
    /\ Goto(Reclaimer, "verifyRemove")
    /\ UNCHANGED <<mapped, bound, quota, batch, lease, request>>

\* The original connection is closed again, within 10 s.
VerifyAnswer ==
    /\ pc[Reclaimer] = "verifyClose"
    /\ \E confirmed \in BOOLEAN :
         /\ DriverClose(lease[Reclaimer], confirmed)
         /\ Closed(lease[Reclaimer], confirmed)
         /\ IF confirmed
            THEN Goto(Reclaimer, "verifyRemove") /\ UNCHANGED lease
            ELSE /\ Goto(Reclaimer, "verify")
                 /\ lease' = [lease EXCEPT ![Reclaimer] = NoResource]
    /\ UNCHANGED <<mapped, bound, quota, batch, request>>

VerifyRemove ==
    /\ pc[Reclaimer] = "verifyRemove"
    /\ mapped' = mapped \ {lease[Reclaimer]}
    /\ lease' = [lease EXCEPT ![Reclaimer] = NoResource]
    /\ Goto(Reclaimer, "verify")
    /\ UNCHANGED <<rows, pools, phys, bound, quota, batch, request>>

VerifyDone ==
    /\ pc[Reclaimer] = "verify" /\ batch[Reclaimer] = {}
    /\ Goto(Reclaimer, "idle")
    /\ UNCHANGED <<rows, pools, hostVars, batch, lease, request>>

--------------------------------------------------------------------------------
Retire(t) == RetireNext(t) \/ RetireAnswer(t) \/ RetireRemove(t) \/ RetireDone(t)

Open(s) ==
    \/ OpenAbandon(s)       \/ OpenPlan(s)          \/ OpenClaim(s)
    \/ OpenNoIdle(s)        \/ OpenLookup(s)        \/ OpenAcquire(s)
    \/ OpenRefusedAnswer(s) \/ OpenObserved(s)      \/ OpenObserveFails(s)
    \/ OpenObserveAnswer(s) \/ OpenRemove(s)        \/ OpenRetain(s)
    \/ OpenInsert(s)        \/ OpenBind(s)

Close(s) ==
    \/ CloseUnresolved(s) \/ CloseReset(s)  \/ CloseParked(s)
    \/ CloseUnbind(s)     \/ CloseAnswer(s) \/ CloseRemove(s)

Reclaim == Sweep \/ VerifyPlan \/ VerifyNext \/ VerifyAnswer \/ VerifyRemove \/ VerifyDone

\* 60 s and 300 s outlast the table locks and the one driver call a task may wait
\* for between two of its labels, so no deadline passes under a task at work.
Elapse(r) ==
    /\ \A t \in Task : lease[t] # r
    /\ IdleExpires(r) \/ VerifyFallsDue(r)
    /\ UNCHANGED <<hostVars, taskVars>>

Next ==
    \/ \E t \in Task : Retire(t)
    \/ \E s \in Session, k \in Key, p \in Purpose : OpenBegin(s, k, p)
    \/ \E s \in Session : Open(s) \/ Execute(s) \/ CloseBegin(s) \/ Close(s)
    \/ Reclaim
    \/ \E r \in Resource : Elapse(r)

Spec == Init /\ [][Next]_vars

\* Tokio keeps polling every task and drivers answer (or the 10 s deadline does);
\* clocks advance.  Nothing obliges a user to open, execute or close.
Fairness ==
    /\ \A t \in Task : WF_vars(Retire(t))
    /\ \A s \in Session : WF_vars(Open(s)) /\ WF_vars(Close(s))
    /\ WF_vars(Reclaim)
    /\ \A r \in Resource : WF_vars(Elapse(r))

FairSpec == Spec /\ Fairness

--------------------------------------------------------------------------------
\* A resource a task is working on.  A closing task that has parked its lease only
\* still has to drop the binding and the permit: the lease is no longer its own.
Holds(t, r) == lease[t] = r /\ pc[t] # "parked"

\* INV-02, INV-06: no two tasks ever work on one physical connection, whatever
\* the order in which opens claim, closes park and the reclaimer retires.
LeaseHeldByOneTask ==
    \A r \in Resource, t, u \in Task : Holds(t, r) /\ Holds(u, r) => t = u

\* An open session's connection is live, mapped and neither idle nor closing, so
\* its next execution is not refused by the ledger or the table.
OpenSessionIsUsable ==
    \A s \in Session : pc[s] = "open" =>
        /\ lease[s] \in mapped
        /\ phys[lease[s]] = "open"
        /\ Registered(lease[s])
        /\ rows[lease[s]].state \in {"Acquired", "InUse"}
        /\ rows[lease[s]].idle = "no"

\* What claim_idle may hand out is in the table with its connection open, and no
\* task works on it: the lookup after a claim cannot fail and strand the row.
IdleLeaseIsReady ==
    \A k \in Key : \A r \in Claimable(k) :
        r \in mapped /\ phys[r] = "open" /\ \A t \in Task : ~Holds(t, r)

\* INV-09: a connection that may still be open is referred to by the table or a
\* task; losing the last reference drops its budget scope and returns its permit.
NoOrphanConnection ==
    \A r \in Resource :
        phys[r] # "absent" => r \in mapped \/ \E t \in Task : lease[t] = r

\* The ledger gives a connection up only when the driver confirmed its close.
RowOutlivesConnection ==
    [][\A r \in Resource :
          Registered(r) /\ rows'[r] = NoRow => phys'[r] = "absent"]_vars

\* A closed session keeps no logical quota and no binding, on every failing path.
ClosedSessionHoldsNothing ==
    \A s \in Session : pc[s] = "closed" =>
        s \notin quota /\ bound[s] = NoResource /\ lease[s] = NoResource

\* Every open and every close comes to an end.
CallsReturn ==
    \A s \in Session :
        /\ pc[s] = "plan" ~> pc[s] \in {"open", "closed"}
        /\ pc[s] = "closing" ~> pc[s] = "closed"

\* A lease whose close was not confirmed and that the table still knows is
\* verified again: the reclaimer comes back to it as long as it is quarantined.
QuarantineIsVerified ==
    \A r \in Resource :
        Registered(r) /\ rows[r].state = "Quarantined"
        ~> ~Registered(r) \/ (pc[Reclaimer] = "verifyClose" /\ lease[Reclaimer] = r)

\* An expired idle lease does not stay in the pool.
ExpiredIdleIsRetired ==
    \A r \in Resource :
        Registered(r) /\ rows[r].idle = "expired"
        ~> ~Registered(r) \/ rows[r].idle = "no"

\* A driver that does not declare ReusableAfterReset: none of those shipped does.
Plain(s) == ConnectionOf[request[s].key] \notin Reusable

\* by_session: "no window in which the table has a row and the physical resource is
\* closed" (session_backend.rs, on the field).  A connection that may be parked is
\* bound for a moment after it was, and may be retired then.
BindingNeverDangles ==
    \A s \in Session : Plain(s) /\ bound[s] # NoResource =>
        bound[s] \in mapped /\ phys[bound[s]] = "open"

\* opening.rs: without its row in by_session a session cannot lend its connection,
\* so an open session stays bound until its own close.
OpenSessionStaysBound ==
    \A s \in Session : Plain(s) /\ pc[s] = "open" => bound[s] = lease[s]

--------------------------------------------------------------------------------
(* The custody of each connection: a session has it from the moment it claims or *)
(* registers it until it parks it or begins to close it; the pool has the idle   *)
(* ones; every other connection that may be open is the host's to close.         *)
Using == {"lookup", "observe", "insert", "bind", "open", "closing"}

Uses(s, r) == lease[s] = r /\ pc[s] \in Using

OwnerOf(r) ==
    IF \E s \in Session : Uses(s, r) THEN CHOOSE s \in Session : Uses(s, r)
    ELSE IF phys[r] = "absent" THEN "free"
    ELSE IF Idle(r) THEN "pool" ELSE "host"

Custody == INSTANCE LeaseCustody
    WITH owner <- [r \in Resource |-> OwnerOf(r)]

\* The desktop host keeps the custody discipline of LeaseCustody.
ImplementsCustody == Custody!Spec

================================================================================
