--------------------------- MODULE BudgetCoordinator ---------------------------
(* BudgetCoordinator: tasks that ask the ledger for a permit and wait for it.   *)
(* A task waits on a Notify that every release, drain and cancellation sets     *)
(* off; the ledger's mutex is only held between two awaits.  What happens       *)
(* between the critical sections of a call is in stage:                         *)
(*   Refused    try_admit has said Busy, the waiter is not queued yet           *)
(*   Listening  about to register for the next notification                     *)
(*   Check, Late  registered; the clock read before the deadline, or after it   *)
(*   Settling, Advancing, Trying   pumping, with the mutex                      *)
(*   Announce, Notify  about to notify, mutex released                          *)
(*   Asleep     at the await; Dropping  its WaiterGuard is being dropped        *)
(*   Advance    a permit is released, its pump not begun                        *)
(*                                                                              *)
(* Sources: execution/runtime/budget/coordinator.rs.  A task has one call at a  *)
(* time and is its own waiter id.                                               *)
EXTENDS BudgetLedger

CONSTANTS
    Asks,           \* the claims each task may make
    Batch,          \* most permits a task takes at once with acquire_cost_now
    Impatient,      \* tasks whose deadline may pass and whose future may be dropped
    Drainable,      \* services, organizations and nodes an operator may drain
    Attachable      \* services sessions attach connections to

ASSUME CoordinatorAssumption ==
    /\ Asks \in [Waiter -> SUBSET Claim]
    /\ Batch \in Nat
    /\ Impatient \subseteq Waiter
    /\ Drainable \subseteq Service \cup Org \cup Worker
    /\ Attachable \subseteq Service

VARIABLES
    stage,          \* where each task is
    want,           \* the claim of its call
    hold,           \* the permits it has been given
    woken,          \* registered tasks a notification has reached
    owner,          \* the task that pumps, with the mutex
    served,         \* the pump has granted something
    alarm           \* a change outside the tasks is about to notify

taskVars == <<stage, want, hold, woken, owner, served, alarm>>
vars == <<known, permits, reservedUse, sharedUse, sharedUsed, attached, queue, late, credit,
          draining, drainingOrgs, drainingNodes, pump,
          stage, want, hold, woken, owner, served, alarm>>

Registered == {t \in Waiter : stage[t] \in {"Check", "Late", "Settling", "Announce", "Asleep"}}
Waiting == {"Listening", "Check", "Late", "Settling", "Announce", "Asleep", "Dropping"}

NoClaim == [service |-> NoService]

TypeOK ==
    /\ LedgerTypeOK
    /\ stage \in [Waiter -> Waiting \cup {"Out", "Refused", "Holding", "Advance", "Advancing",
                                          "Trying", "Notify"}]
    /\ want \in [Waiter -> Claim \cup {NoClaim}]
    /\ hold \in [Waiter -> SUBSET Permit]
    /\ woken \subseteq Waiter
    /\ owner \in Waiter \cup {NoWaiter}
    /\ served \in BOOLEAN /\ alarm \in BOOLEAN

Init ==
    /\ LedgerInit
    /\ stage = [t \in Waiter |-> "Out"]
    /\ want = [t \in Waiter |-> NoClaim]
    /\ hold = [t \in Waiter |-> {}]
    /\ woken = {}
    /\ owner = NoWaiter
    /\ served = FALSE
    /\ alarm = FALSE

--------------------------------------------------------------------------------
MutexFree == owner = NoWaiter     \* nobody has the mutex

Goes(t, to) == stage' = [stage EXCEPT ![t] = to]

GrantedTo(t) == {p \in InHand : permits[p].waiter = t}

ledger == <<known, permits, reservedUse, sharedUse, sharedUsed, attached, queue, late, credit,
            draining, drainingOrgs, drainingNodes, pump>>

\* acquire_claim_with, its first critical section: a slot at once.
AskGranted(t, claim) ==
    /\ stage[t] = "Out" /\ MutexFree /\ claim \in Asks[t]
    /\ \E p \in Permit : Admit(claim, p) /\ hold' = [hold EXCEPT ![t] = {p}]
    /\ Goes(t, "Holding")
    /\ UNCHANGED <<want, woken, owner, served, alarm>>

AskBusy(t, claim) ==
    /\ stage[t] = "Out" /\ MutexFree /\ claim \in Asks[t]
    /\ Busy(claim)
    /\ Goes(t, "Refused")
    /\ want' = [want EXCEPT ![t] = claim]
    /\ known' = known \cup {claim.service}
    /\ UNCHANGED <<accounts, attached, queue, late, credit, drains, pump,
                   hold, woken, owner, served, alarm>>

\* Denied: the service is drained, or the node is; it is registered all the same.
AskDenied(t, claim) ==
    /\ stage[t] = "Out" /\ MutexFree /\ claim \in Asks[t]
    /\ ~Busy(claim)
    /\ \/ claim.worker \in drainingNodes \/ claim.service \in draining
       \/ claim.org \in drainingOrgs
    /\ known' = known \cup {claim.service}
    /\ UNCHANGED <<accounts, attached, queue, late, credit, drains, pump, taskVars>>

\* acquire_cost_now: several slots at once or none.
AskMany(t, claim) ==
    /\ stage[t] = "Out" /\ MutexFree /\ claim \in Asks[t]
    /\ \E ids \in SUBSET Permit :
          /\ Cardinality(ids) \in 2..Batch
          /\ AdmitMany([p \in ids |-> claim])
          /\ hold' = [hold EXCEPT ![t] = ids]
    /\ Goes(t, "Holding")
    /\ UNCHANGED <<want, woken, owner, served, alarm>>

\* A batch that does not fit is put back whole; the service stays registered.
AskManyRefused(t, claim) ==
    /\ stage[t] = "Out" /\ MutexFree /\ claim \in Asks[t]
    /\ \E n \in 2..Batch :
          \/ n > PhysicalCap
          \/ n > Reserved[claim.class] + (IF claim.class \in SharedMembers THEN Shared ELSE 0)
          \/ claim.worker \in drainingNodes \/ claim.org \in drainingOrgs
    /\ Ensure(claim.service)
    /\ UNCHANGED taskVars

\* try_acquire with no slot free: it pumps for the others and tells nobody.
Probe(t, claim) ==
    /\ stage[t] = "Out" /\ MutexFree /\ claim \in Asks[t]
    /\ Busy(claim)
    /\ \E gone \in SUBSET (late \cap Queued) : PumpStart(gone)
    /\ Goes(t, "Trying")
    /\ owner' = t
    /\ UNCHANGED <<want, hold, woken, served, alarm>>

ProbeDone(t) ==
    /\ owner = t /\ stage[t] = "Trying" /\ Unlocked
    /\ Goes(t, "Out")
    /\ owner' = NoWaiter
    /\ served' = FALSE
    /\ UNCHANGED <<ledger, want, hold, woken, alarm>>

\* The second critical section: the request is queued.
Join(t) ==
    /\ stage[t] = "Refused" /\ MutexFree
    /\ Enqueue(want[t], t)
    /\ Goes(t, "Listening")
    /\ UNCHANGED <<want, hold, woken, owner, served, alarm>>

\* The deadline has passed already, the queue is full, or the node is draining.
TurnedAway(t) ==
    /\ stage[t] = "Refused" /\ MutexFree
    /\ t \in Impatient \/ ~QueueHasRoom(want[t]) \/ want[t].worker \in drainingNodes
    /\ Goes(t, "Out")
    /\ want' = [want EXCEPT ![t] = NoClaim]
    /\ UNCHANGED <<ledger, hold, woken, owner, served, alarm>>

--------------------------------------------------------------------------------
(* The waiting loop.                                                            *)

\* A new Notified is registered, then settle reads the clock.
Register(t) ==
    /\ stage[t] = "Listening"
    /\ Goes(t, IF t \in late THEN "Late" ELSE "Check")
    /\ woken' = woken \ {t}
    /\ UNCHANGED <<ledger, want, hold, owner, served, alarm>>

\* settle, before the deadline: pumps for everybody.
Settle(t) ==
    /\ stage[t] = "Check" /\ MutexFree
    /\ \E gone \in SUBSET ((late \cap Queued) \ {t}) : PumpStart(gone)
    /\ Goes(t, "Settling")
    /\ owner' = t
    /\ UNCHANGED <<want, hold, woken, served, alarm>>

\* settle, after it: the error is returned, the guard still armed.
SettleLate(t) ==
    /\ stage[t] = "Late" /\ MutexFree
    /\ Goes(t, "Dropping")
    /\ UNCHANGED <<ledger, want, hold, woken, owner, served, alarm>>

PumpOn ==
    /\ owner # NoWaiter
    /\ \/ PumpGrant /\ served' = TRUE
       \/ (\E s \in Service : PumpNext(s)) /\ UNCHANGED served
    /\ UNCHANGED <<stage, want, hold, woken, owner, alarm>>

\* Fault: the guard is not disarmed when the call succeeds.
Settled_StillArmed(t) ==
    /\ owner = t /\ stage[t] = "Settling" /\ Unlocked
    /\ hold' = [hold EXCEPT ![t] = GrantedTo(t)]
    /\ Goes(t, IF GrantedTo(t) = {} THEN "Asleep" ELSE "Dropping")
    /\ owner' = NoWaiter
    /\ served' = FALSE
    /\ UNCHANGED <<ledger, want, woken, alarm>>

\* The end of settle's critical section: whether its own waiter has a permit.
Settled(t) ==
    /\ owner = t /\ stage[t] = "Settling" /\ Unlocked
    /\ hold' = [hold EXCEPT ![t] = GrantedTo(t)]
    /\ Goes(t, IF served THEN "Announce" ELSE IF GrantedTo(t) = {} THEN "Asleep" ELSE "Holding")
    /\ owner' = NoWaiter
    /\ served' = FALSE
    /\ UNCHANGED <<ledger, want, woken, alarm>>

\* notify_waiters, by settle itself: its own registration is reached as well.
Announce(t) ==
    /\ stage[t] = "Announce"
    /\ woken' = woken \cup Registered
    /\ Goes(t, IF hold[t] = {} THEN "Asleep" ELSE "Holding")
    /\ UNCHANGED <<ledger, want, hold, owner, served, alarm>>

\* Fault: the sleeper looks again only when its deadline has passed.
Wake_OnTime(t) ==
    /\ stage[t] = "Asleep" /\ t \in late
    /\ Goes(t, "Listening")
    /\ UNCHANGED <<ledger, want, hold, woken, owner, served, alarm>>

\* Fault: no timer is set beside the notification.
Wake_OnNotify(t) ==
    /\ stage[t] = "Asleep" /\ t \in woken
    /\ Goes(t, "Listening")
    /\ UNCHANGED <<ledger, want, hold, woken, owner, served, alarm>>

Wake(t) ==
    /\ stage[t] = "Asleep" /\ t \in woken \cup late
    /\ Goes(t, "Listening")
    /\ UNCHANGED <<ledger, want, hold, woken, owner, served, alarm>>

\* The deadline passes.
Overdue(t) ==
    /\ t \in Impatient \ late /\ stage[t] \in Waiting \ {"Dropping"}
    /\ late' = late \cup {t}
    /\ UNCHANGED <<known, accounts, attached, queue, credit, drains, pump, taskVars>>

\* The caller drops the future, at its await.
Abandon(t) ==
    /\ t \in Impatient /\ stage[t] = "Asleep"
    /\ Goes(t, "Dropping")
    /\ UNCHANGED <<ledger, want, hold, woken, owner, served, alarm>>

\* Fault: the guard takes the waiter out of the queue and looks no further.
DropGuard_QueueOnly(t) ==
    /\ stage[t] = "Dropping" /\ MutexFree
    /\ Leave({t}) /\ late' = late \ {t}
    /\ Goes(t, "Notify")
    /\ want' = [want EXCEPT ![t] = NoClaim]
    /\ UNCHANGED <<known, accounts, attached, credit, drains, pump, hold, woken, owner, served, alarm>>

\* Fault: what the waiter had been granted goes back, and nobody is told.
DropGuard_Silent(t) ==
    /\ stage[t] = "Dropping" /\ MutexFree
    /\ Leave({t}) /\ late' = late \ {t}
    /\ IF GrantedTo(t) = {} THEN UNCHANGED accounts ELSE \E p \in GrantedTo(t) : Free(p)
    /\ Goes(t, "Out")
    /\ want' = [want EXCEPT ![t] = NoClaim]
    /\ UNCHANGED <<known, attached, credit, drains, pump, hold, woken, owner, served, alarm>>

\* WaiterGuard::drop: out of the queue, and a permit granted meanwhile goes back.
DropGuard(t) ==
    /\ stage[t] = "Dropping" /\ MutexFree
    /\ Leave({t}) /\ late' = late \ {t}
    /\ IF GrantedTo(t) = {} THEN UNCHANGED accounts ELSE \E p \in GrantedTo(t) : Free(p)
    /\ Goes(t, "Notify")
    /\ want' = [want EXCEPT ![t] = NoClaim]
    /\ UNCHANGED <<known, attached, credit, drains, pump, hold, woken, owner, served, alarm>>

--------------------------------------------------------------------------------
(* Release, and changes outside the tasks.                                      *)

\* release_permit: the slot is free, advance comes next.
GiveBack(t) ==
    /\ stage[t] = "Holding" /\ MutexFree
    /\ \E p \in hold[t] :
          /\ Free(p)
          /\ hold' = [hold EXCEPT ![t] = @ \ {p}]
    /\ late' = late \ {t}
    /\ Goes(t, "Advance")
    /\ want' = [want EXCEPT ![t] = NoClaim]
    /\ UNCHANGED <<known, attached, queue, credit, drains, pump, woken, owner, served, alarm>>

Advance(t) ==
    /\ stage[t] = "Advance" /\ MutexFree
    /\ \E gone \in SUBSET (late \cap Queued) : PumpStart(gone)
    /\ Goes(t, "Advancing")
    /\ owner' = t
    /\ UNCHANGED <<want, hold, woken, served, alarm>>

Advanced(t) ==
    /\ owner = t /\ stage[t] = "Advancing" /\ Unlocked
    /\ Goes(t, "Notify")
    /\ owner' = NoWaiter
    /\ served' = FALSE
    /\ UNCHANGED <<ledger, want, hold, woken, alarm>>

\* notify_waiters, at the end of a release or of a dropped guard.
Notify(t) ==
    /\ stage[t] = "Notify"
    /\ woken' = woken \cup Registered
    /\ Goes(t, IF hold[t] = {} THEN "Out" ELSE "Holding")
    /\ UNCHANGED <<ledger, want, hold, owner, served, alarm>>

\* mutate_ledger and drain notify when they have released the mutex.
Outside ==
    /\ MutexFree
    /\ \/ \E s \in Attachable : (s \in known /\ Attach(s)) \/ Detach(s)
       \/ \E s \in Drainable \cap Service : DrainConnection(s)
       \/ \E o \in Drainable \cap Org : DrainOrganization(o)
       \/ \E n \in Drainable \cap Worker : DrainNode(n)
    /\ alarm' = TRUE
    /\ UNCHANGED <<stage, want, hold, woken, owner, served>>

Ring ==
    /\ alarm
    /\ woken' = woken \cup Registered
    /\ alarm' = FALSE
    /\ UNCHANGED <<ledger, stage, want, hold, owner, served>>

Task(t) ==
    \/ \E claim \in Claim :
          \/ AskGranted(t, claim) \/ AskBusy(t, claim) \/ AskDenied(t, claim)
          \/ AskMany(t, claim) \/ AskManyRefused(t, claim) \/ Probe(t, claim)
    \/ ProbeDone(t) \/ Join(t) \/ TurnedAway(t)
    \/ Register(t) \/ Settle(t) \/ SettleLate(t) \/ Settled(t) \/ Announce(t)
    \/ Wake(t) \/ Overdue(t) \/ Abandon(t) \/ DropGuard(t)
    \/ GiveBack(t) \/ Advance(t) \/ Advanced(t) \/ Notify(t)

Next ==
    \/ \E t \in Waiter : Task(t)
    \/ PumpOn
    \/ Outside
    \/ Ring

Spec == Init /\ [][Next]_vars

\* A call runs on: its steps, the pump it has begun, and the wakeups.  A task that
\* keeps asking for the mutex gets it.  Permits are given back in the end.
RunsOn(t) ==
    \/ ProbeDone(t) \/ Register(t) \/ Settled(t) \/ Announce(t) \/ Wake(t)
    \/ Advanced(t) \/ Notify(t)
Locks(t) ==
    \/ Join(t) \/ TurnedAway(t) \/ Settle(t) \/ SettleLate(t) \/ DropGuard(t)
    \/ GiveBack(t) \/ Advance(t)

Fairness ==
    /\ WF_vars(PumpOn) /\ WF_vars(Ring)
    /\ \A t \in Waiter : WF_vars(RunsOn(t)) /\ SF_vars(Locks(t))

FairSpec == Spec /\ Fairness

\* And every deadline passes in the end.
TimedSpec == FairSpec /\ \A t \in Waiter : WF_vars(Overdue(t))

--------------------------------------------------------------------------------
(* Properties.                                                                  *)

\* Every permit in hand is somebody's: a task has been given it, or it was granted
\* to a waiter whose call has not returned.  A call that is dropped, or times out,
\* while the pump grants it a permit leaves none behind.
NoPermitLeak ==
    \A p \in InHand :
        \/ \E t \in Waiter : p \in hold[t] /\ stage[t] \in {"Holding", "Announce", "Advance",
                                                           "Advancing", "Notify"}
        \/ \E t \in Waiter : permits[p].waiter = t /\ stage[t] \in Waiting

\* A permit has one holder, and what a task holds is in the ledger.
OneHolder ==
    \A t, u \in Waiter : \A p \in hold[t] :
        p \in InHand /\ (p \in hold[u] => t = u)

\* Somebody who will still notify, or look for itself.
Stirring ==
    \/ alarm \/ owner # NoWaiter
    \/ \E t \in Waiter : stage[t] \in {"Listening", "Check", "Late", "Announce", "Dropping",
                                       "Advance", "Notify"}
    \/ \E t \in Waiter : stage[t] = "Asleep" /\ t \in woken \cup late

\* No wakeup is lost between the look at the ledger and the sleep: when a sleeper
\* has been granted a permit, or one of those who wait could be, somebody is still
\* going to notify or to look.
NoLostWakeup ==
    Stirring \/
        /\ \A t \in Waiter : stage[t] = "Asleep" => GrantedTo(t) = {}
        /\ \A s \in known \ draining : Physical(s) < PhysicalCap =>
              \A c \in Class : queue[s][c] # <<>> => Slots(s, c) = {}

\* A call that has joined the queue ends, with a permit or without, when permits
\* are given back in the end: no task sleeps for ever.
WaiterIsServed ==
    \A t \in Waiter : stage[t] = "Listening" ~> stage[t] \in {"Holding", "Out"}

\* A call that may time out ends, whatever classes compete for the slots: a task that
\* the shared rotation or a newcomer passes over again and again is told in the end,
\* also when its waiter has left the queue without it noticing.
DeadlineEndsTheCall ==
    \A t \in Impatient : stage[t] = "Listening" ~> stage[t] \in {"Holding", "Out"}

\* "drain: no new permit is issued once draining has begun": not to a claim on a
\* drained node, nor of a drained organization, that waits when the drain comes.
DrainedClaimGrantsNothing ==
    [][\A e \in Waiters :
         e.claim.worker \in drainingNodes \/ e.claim.org \in drainingOrgs
         => ~NewlyGranted(e.id)]_vars
================================================================================
