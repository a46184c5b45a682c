----------------------- MODULE BudgetCoordinator_proofs -----------------------
(* What the coordinator guarantees for any number of tasks, permits, services   *)
(* and impatient callers: no permit is lost or held twice, and no wakeup is     *)
(* missed.  It rests on the invariant of the ledger it drives, and what that    *)
(* ledger promises on its own holds while the tasks use it.                     *)
EXTENDS BudgetCoordinator, BudgetLedger_proofs

TaskTypes ==
    /\ stage \in [Waiter -> Waiting \cup {"Out", "Refused", "Holding", "Advance", "Advancing",
                                          "Trying", "Notify"}]
    /\ want \in [Waiter -> Claim \cup {NoClaim}]
    /\ hold \in [Waiter -> SUBSET Permit]
    /\ woken \subseteq Waiter
    /\ owner \in Waiter \cup {NoWaiter}
    /\ served \in BOOLEAN /\ alarm \in BOOLEAN

\* What a task holds is in the ledger, and was granted to nobody else's waiter.
HoldsInHand ==
    \A t \in Waiter : \A p \in hold[t] : p \in InHand /\ permits[p].waiter \in {NoWaiter, t}

--------------------------------------------------------------------------------
(* Steps, by what they do to the ledger.                                        *)

\* Nothing: a task moves on.
MovesOn ==
    \/ Ring
    \/ \E t \in Waiter : \/ ProbeDone(t) \/ TurnedAway(t) \/ Register(t) \/ SettleLate(t)
                         \/ Settled(t) \/ Announce(t) \/ Wake(t) \/ Abandon(t)
                         \/ Advanced(t) \/ Notify(t)

\* Nothing that counts: a service becomes known, a deadline passes.
Notes == \E t \in Waiter :
            \/ Overdue(t)
            \/ \E claim \in Claim : AskBusy(t, claim) \/ AskDenied(t, claim) \/ AskManyRefused(t, claim)

Gets == \E t \in Waiter, claim \in Claim : AskGranted(t, claim) \/ AskMany(t, claim)

PumpBegins ==
    \E t \in Waiter : Settle(t) \/ Advance(t) \/ \E claim \in Claim : Probe(t, claim)

Joins == \E t \in Waiter : Join(t)

GivesBack == \E t \in Waiter : DropGuard(t) \/ GiveBack(t)

LEMMA Steps ==
    Next => \/ MovesOn \/ Notes \/ Gets \/ PumpBegins \/ Joins \/ GivesBack \/ PumpOn \/ Outside
  BY DEF Next, Task, MovesOn, Notes, Gets, PumpBegins, Joins, GivesBack

\* What the other steps are to the ledger.
LEMMA MovesOnLedger == MovesOn => UNCHANGED ledgerVars
  BY DEF MovesOn, Ring, ProbeDone, TurnedAway, Register, SettleLate, Settled, Announce, Wake,
         Abandon, Advanced, Notify, ledger, ledgerVars

LEMMA ClaimService == \A claim \in Claim : claim \in ClaimType /\ claim.service \in Service
                                           /\ claim.class \in Class
  BY BudgetAssumption DEF ClaimType

LEMMA NotesLedger ==
    ASSUME OtherTypes, Notes
    PROVE  /\ RestStep /\ OtherTypes'
           /\ known \subseteq known' /\ late \subseteq late'
           /\ UNCHANGED <<credit, draining, drainingOrgs, drainingNodes, pump>>
  <1>1. PICK t \in Waiter :
            \/ Overdue(t)
            \/ \E claim \in Claim : AskBusy(t, claim) \/ AskDenied(t, claim) \/ AskManyRefused(t, claim)
    BY DEF Notes
  <1>2. CASE Overdue(t)  BY <1>2 DEF Overdue, RestStep, OtherTypes, accounts, drains
  <1>3. ASSUME NEW claim \in Claim, AskBusy(t, claim) \/ AskDenied(t, claim) \/ AskManyRefused(t, claim)
        PROVE  /\ known' = known \cup {claim.service}
               /\ UNCHANGED <<permits, reservedUse, sharedUse, sharedUsed, attached, queue, late,
                              credit, draining, drainingOrgs, drainingNodes, pump>>
    BY <1>3 DEF AskBusy, AskDenied, AskManyRefused, Ensure, accounts, drains
  <1>4. QED  BY <1>1, <1>2, <1>3, ClaimService DEF RestStep, OtherTypes

LEMMA GetsLedger ==
    ASSUME Gets
    PROVE  LedgerNext
  <1>1. PICK t \in Waiter, claim \in Claim : AskGranted(t, claim) \/ AskMany(t, claim)  BY DEF Gets
  <1>2. CASE AskGranted(t, claim)  BY <1>2 DEF AskGranted, LedgerNext
  <1>3. CASE AskMany(t, claim)
    <2>1. PICK ids \in SUBSET Permit : /\ Cardinality(ids) \in 2..Batch
                                       /\ AdmitMany([p \in ids |-> claim])
      BY <1>3 DEF AskMany
    <2>2. ids # {}  BY <2>1, FS_EmptySet, CoordinatorAssumption
    <2>3. [p \in ids |-> claim] \in [ids -> Claim]  OBVIOUS
    <2>4. QED  BY <2>1, <2>2, <2>3 DEF LedgerNext
  <1>4. QED  BY <1>1, <1>2, <1>3

\* A task that asks and gets: new permits, for no waiter.
LEMMA AskedIs ==
    ASSUME NEW t \in Waiter, NEW claim \in Claim, AskGranted(t, claim) \/ AskMany(t, claim)
    PROVE  /\ \E ids \in SUBSET Permit :
                 /\ \A p \in ids : /\ permits[p] = NoPermit /\ permits'[p] # NoPermit
                                   /\ permits'[p].waiter = NoWaiter
                 /\ \A p \in Permit \ ids : permits'[p] = permits[p]
                 /\ hold' = [hold EXCEPT ![t] = ids]
           /\ stage[t] = "Out" /\ Goes(t, "Holding")
           /\ known \subseteq known'
           /\ UNCHANGED <<queue, attached, late, draining, pump, woken, owner, served, alarm>>
  <1>1. ASSUME NEW g, Commit(g), \A p \in DOMAIN g : /\ permits[p] = NoPermit
                                                   /\ g[p] \in Grant /\ g[p].waiter = NoWaiter,
               DOMAIN g \in SUBSET Permit
        PROVE  /\ \A p \in DOMAIN g : /\ permits[p] = NoPermit /\ permits'[p] # NoPermit
                                      /\ permits'[p].waiter = NoWaiter
               /\ \A p \in Permit \ DOMAIN g : permits'[p] = permits[p]
    <2>1. permits' = [p \in Permit |-> IF p \in DOMAIN g THEN g[p] ELSE permits[p]]
      BY <1>1 DEF Commit
    <2>2. NoPermit \notin Grant  BY BudgetAssumption DEF Grant
    <2>3. QED  BY <1>1, <2>1, <2>2
  <1>2. claim \in ClaimType  BY ClaimService
  <1>3. CASE AskGranted(t, claim)
    <2>1. PICK p \in Permit : Admit(claim, p) /\ hold' = [hold EXCEPT ![t] = {p}]
      BY <1>3 DEF AskGranted
    <2>2. PICK slot \in Slots(claim.service, claim.class) :
             Commit([q \in {p} |-> [claim |-> claim, slot |-> slot, waiter |-> NoWaiter]])
      BY <2>1 DEF Admit
    <2>3. [claim |-> claim, slot |-> slot, waiter |-> NoWaiter] \in Grant
      BY <1>2, <2>2 DEF Slots, Grant
    <2>4. PICK g : g = [q \in {p} |-> [claim |-> claim, slot |-> slot, waiter |-> NoWaiter]]
      OBVIOUS
    <2>5. /\ Commit(g) /\ DOMAIN g = {p} /\ {p} \in SUBSET Permit
          /\ \A q \in DOMAIN g : g[q] \in Grant /\ g[q].waiter = NoWaiter
      BY <2>2, <2>3, <2>4
    <2>6. permits[p] = NoPermit  BY <2>1 DEF Admit
    <2>7. /\ permits'[p] # NoPermit /\ permits'[p].waiter = NoWaiter
          /\ \A q \in Permit \ {p} : permits'[q] = permits[q]
      BY <1>1, <2>5, <2>6
    <2>8. /\ known \subseteq known'
          /\ UNCHANGED <<queue, attached, late, draining, pump>>
      BY <2>1 DEF Admit, drains
    <2>9. \E ids \in SUBSET Permit :
                 /\ \A q \in ids : /\ permits[q] = NoPermit /\ permits'[q] # NoPermit
                                   /\ permits'[q].waiter = NoWaiter
                 /\ \A q \in Permit \ ids : permits'[q] = permits[q]
                 /\ hold' = [hold EXCEPT ![t] = ids]
      <3>1. WITNESS {p} \in SUBSET Permit
      <3>2. QED  BY <2>1, <2>6, <2>7
    <2>10. QED  BY <1>3, <2>8, <2>9 DEF AskGranted
  <1>4. CASE AskMany(t, claim)
    <2>1. PICK ids \in SUBSET Permit : /\ AdmitMany([p \in ids |-> claim])
                                       /\ hold' = [hold EXCEPT ![t] = ids]
      BY <1>4 DEF AskMany
    <2>2. PICK claims : claims = [p \in ids |-> claim]  OBVIOUS
    <2>3. AdmitMany(claims) /\ DOMAIN claims = ids /\ \A p \in ids : claims[p] = claim
      BY <2>1, <2>2
    <2>4. PICK slots \in BatchSlots(claims) :
             Commit([p \in DOMAIN claims |->
                       [claim |-> claims[p], slot |-> slots[p], waiter |-> NoWaiter]])
      BY <2>3 DEF AdmitMany
    <2>5. \A p \in ids : slots[p] \in {"Reserved", "Shared"}  BY <2>3, <2>4 DEF BatchSlots
    <2>6. PICK g : g = [p \in ids |-> [claim |-> claim, slot |-> slots[p], waiter |-> NoWaiter]]
      OBVIOUS
    <2>7. Commit(g)
      <3>1. [p \in DOMAIN claims |-> [claim |-> claims[p], slot |-> slots[p], waiter |-> NoWaiter]] = g
        BY <2>3, <2>6
      <3>2. QED  BY <2>4, <3>1
    <2>8. DOMAIN g = ids /\ \A p \in ids : g[p] \in Grant /\ g[p].waiter = NoWaiter
      BY <1>2, <2>5, <2>6 DEF Grant
    <2>9. \A p \in ids : permits[p] = NoPermit  BY <2>3 DEF AdmitMany
    <2>10. /\ \A p \in ids : permits'[p] # NoPermit /\ permits'[p].waiter = NoWaiter
           /\ \A p \in Permit \ ids : permits'[p] = permits[p]
      BY <1>1, <2>7, <2>8, <2>9
    <2>11. /\ known \subseteq known'
           /\ UNCHANGED <<queue, attached, late, draining, pump>>
      BY <2>3 DEF AdmitMany, drains
    <2>12. QED  BY <1>4, <2>1, <2>9, <2>10, <2>11 DEF AskMany
  <1>5. QED  BY <1>3, <1>4

LEMMA PumpBeginsLedger == PumpBegins => LedgerNext
  <1> SUFFICES ASSUME PumpBegins PROVE LedgerNext  OBVIOUS
  <1>1. PICK t \in Waiter : Settle(t) \/ Advance(t) \/ \E claim \in Claim : Probe(t, claim)
    BY DEF PumpBegins
  <1>2. \E gone \in SUBSET (late \cap Queued) : PumpStart(gone)
    BY <1>1 DEF Settle, Advance, Probe
  <1>3. QED  BY <1>2 DEF LedgerNext

\* Who joins a queue has a claim: nothing else is for a service the ledger knows.
LEMMA JoinsClaim ==
    ASSUME OtherTypes, TaskTypes, NEW t \in Waiter, Join(t)
    PROVE  want[t] \in Claim /\ Enqueue(want[t], t)
  <1>1. Enqueue(want[t], t)  BY DEF Join
  <1>2. want[t].service \in Service  BY <1>1 DEF Enqueue, OtherTypes
  <1>3. want[t] # NoClaim  BY <1>2, BudgetAssumption DEF NoClaim
  <1>4. QED  BY <1>1, <1>3 DEF TaskTypes

LEMMA JoinsLedger == OtherTypes /\ TaskTypes /\ Joins => LedgerNext
  <1> SUFFICES ASSUME OtherTypes, TaskTypes, Joins PROVE LedgerNext  OBVIOUS
  <1>1. PICK t \in Waiter : Join(t)  BY DEF Joins
  <1>2. PICK claim \in Claim : Enqueue(claim, t)  BY <1>1, JoinsClaim
  <1>3. QED  BY <1>2 DEF LedgerNext

LEMMA PumpOnLedger == PumpOn => LedgerNext
  BY DEF PumpOn, LedgerNext

LEMMA OutsideLedger == Outside => LedgerNext
  <1> SUFFICES ASSUME Outside PROVE LedgerNext  OBVIOUS
  <1>1. CASE \E s \in Attachable : (s \in known /\ Attach(s)) \/ Detach(s)
    BY <1>1, CoordinatorAssumption DEF LedgerNext
  <1>2. CASE \E s \in Drainable \cap Service : DrainConnection(s)  BY <1>2 DEF LedgerNext
  <1>3. CASE \E o \in Drainable \cap Org : DrainOrganization(o)  BY <1>3 DEF LedgerNext
  <1>4. CASE \E n \in Drainable \cap Worker : DrainNode(n)  BY <1>4 DEF LedgerNext
  <1>5. QED  BY <1>1, <1>2, <1>3, <1>4 DEF Outside

--------------------------------------------------------------------------------
(* The ledger under the coordinator.                                            *)

\* Permits and waiters that go in one step.
LEMMA BackKeeps ==
    ASSUME LedgerInv, OtherTypes', NEW p \in InHand, Free(p), attached' = attached,
           queue' = queue \/ \E gone : Leave(gone)
    PROVE  LedgerInv'
  <1>1. AccountsInv /\ QueuesInv /\ QueuesInOrder /\ Once /\ PermitWaiters /\ QueuesWithinCaps
    BY DEF LedgerInv, QueuesInv
  <1>2. AccountsInv'  BY <1>1, ReleaseTakesBack, ReleaseWithinQuota DEF AccountsInv
  <1>3. InHand' = InHand \ {p} /\ \A q \in InHand' : permits'[q] = permits[q]
    BY <1>1, ReleaseTakesBack DEF AccountsInv
  <1>4. /\ QueuesInOrder'
        /\ \A s \in Service, c \in Class : WaitersIn(s, c)' \subseteq WaitersIn(s, c)
    BY <1>1, SameQueues, LeaveMoves
  <1>5. Waiters' \subseteq Waiters /\ Queued' \subseteq Queued  BY <1>4, FewerWaiters
  <1>6. Once'  BY <1>1, <1>5 DEF Once
  <1>7. PermitWaiters'  BY <1>1, <1>3, <1>5 DEF PermitWaiters
  <1>8. QueuesWithinCaps'  BY <1>1, <1>4, FewerWithinCaps
  <1>9. QED  BY <1>2, <1>4, <1>6, <1>7, <1>8 DEF LedgerInv, QueuesInv

\* A permit or two calls end: what the ledger sees of it.
LEMMA GivesBackLedger ==
    ASSUME HoldsInHand, GivesBack
    PROVE  /\ \/ UNCHANGED <<permits, reservedUse, sharedUse, sharedUsed>>
              \/ \E p \in InHand : Free(p)
           /\ queue' = queue \/ \E gone : Leave(gone)
           /\ UNCHANGED <<known, attached, credit, draining, drainingOrgs, drainingNodes, pump>>
           /\ late' \subseteq late
  <1>1. PICK t \in Waiter : DropGuard(t) \/ GiveBack(t)  BY DEF GivesBack
  <1>2. CASE DropGuard(t)
    <2>1. \/ UNCHANGED <<permits, reservedUse, sharedUse, sharedUsed>>
          \/ \E p \in InHand : Free(p)
      BY <1>2 DEF DropGuard, GrantedTo, accounts
    <2>2. QED  BY <1>2, <2>1 DEF DropGuard, drains
  <1>3. CASE GiveBack(t)
    <2>1. PICK p \in hold[t] : Free(p)  BY <1>3 DEF GiveBack
    <2>2. p \in InHand  BY <2>1 DEF HoldsInHand
    <2>3. QED  BY <1>3, <2>1, <2>2 DEF GiveBack, drains
  <1>4. QED  BY <1>1, <1>2, <1>3

LEMMA LedgerKept ==
    ASSUME LedgerInv, TaskTypes, HoldsInHand, [Next]_vars
    PROVE  LedgerInv'
  <1>0. OtherTypes  BY DEF LedgerInv
  <1>1. CASE UNCHANGED vars \/ MovesOn
    <2>1. UNCHANGED ledgerVars  BY <1>1, MovesOnLedger DEF vars, ledgerVars
    <2>2. QED  BY <2>1, InvStutters
  <1>2. CASE Notes  BY <1>0, <1>2, NotesLedger, StepKeeps
  <1>3. CASE Gets \/ PumpBegins \/ Joins \/ PumpOn \/ Outside
    <2>1. LedgerNext
      BY <1>0, <1>3, GetsLedger, PumpBeginsLedger, JoinsLedger, PumpOnLedger, OutsideLedger
    <2>2. QED  BY <2>1, InvNext
  <1>4. CASE GivesBack
    <2>1. /\ \/ UNCHANGED <<permits, reservedUse, sharedUse, sharedUsed>>
             \/ \E p \in InHand : Free(p)
          /\ queue' = queue \/ \E gone : Leave(gone)
          /\ UNCHANGED <<known, attached, credit, draining, drainingOrgs, drainingNodes, pump>>
          /\ late' \subseteq late
      BY <1>4, GivesBackLedger
    <2>2. OtherTypes'  BY <1>0, <2>1 DEF OtherTypes
    <2>3. CASE UNCHANGED <<permits, reservedUse, sharedUse, sharedUsed>>
      <3>1. RestStep \/ LeaveStep  BY <2>1, <2>3 DEF RestStep, LeaveStep
      <3>2. QED  BY <2>2, <3>1, StepKeeps
    <2>4. CASE \E p \in InHand : Free(p)
      <3>1. PICK p \in InHand : Free(p)  BY <2>4
      <3>2. QED  BY <2>1, <2>2, <3>1, BackKeeps
    <2>5. QED  BY <2>1, <2>3, <2>4
  <1>5. QED  BY <1>1, <1>2, <1>3, <1>4, Steps

--------------------------------------------------------------------------------
(* Tasks and the mutex.                                                         *)

Pumping == {"Settling", "Advancing", "Trying"}

MutexInv ==
    /\ owner = NoWaiter => Unlocked
    /\ owner # NoWaiter => stage[owner] \in Pumping
    /\ \A t \in Waiter : stage[t] \in Pumping => owner = t
    /\ Unlocked => pump.todo = {}

\* What a visit leaves to do.
LEMMA VisitIs ==
    ASSUME NEW todo \in SUBSET Service, Visit(todo)
    PROVE  /\ Unlocked' => pump'.todo = {}
           /\ todo \subseteq pump'.todo \cup {pump'.service}
  <1>1. CASE todo = {}  BY <1>1 DEF Visit, Idle
  <1>2. CASE todo # {}
    <2>1. PICK s \in todo : pump' = [service |-> s, todo |-> todo \ {s}, last |-> 0]
      BY <1>2 DEF Visit
    <2>2. ~Unlocked'  BY <2>1, BudgetAssumption DEF Unlocked
    <2>3. QED  BY <2>1, <2>2
  <1>3. QED  BY <1>1, <1>2

\* The pump that goes on is not the beginning of another.
LEMMA PumpOnIs ==
    ASSUME OtherTypes, PumpOn
    PROVE  /\ pump.service \in Service /\ ~Unlocked
           /\ \/ PumpGrant /\ pump'.service = pump.service /\ pump'.todo = pump.todo /\ served' = TRUE
              \/ PumpNext(pump.service) /\ served' = served
  <1>1. pump \in [service : Service \cup {NoService}, todo : SUBSET Service, last : 0..4]
    BY DEF OtherTypes
  <1>2. CASE PumpGrant /\ served' = TRUE
    <2>1. PICK s \in Service : PumpReserved(s) \/ PumpShared(s)  BY <1>2 DEF PumpGrant
    <2>2. pump.service = s  BY <2>1 DEF PumpReserved, PumpShared, Serves
    <2>3. pump' = pump \/ \E i \in 1..4 : pump' = [pump EXCEPT !.last = i]
      BY <2>1 DEF PumpReserved, PumpShared
    <2>4. pump'.service = pump.service /\ pump'.todo = pump.todo  BY <1>1, <2>3
    <2>5. QED  BY <1>2, <2>2, <2>4, BudgetAssumption DEF Unlocked
  <1>3. CASE (\E s \in Service : PumpNext(s)) /\ served' = served
    <2>1. PICK s \in Service : PumpNext(s)  BY <1>3
    <2>2. pump.service = s  BY <2>1 DEF PumpNext
    <2>3. QED  BY <1>3, <2>1, <2>2, BudgetAssumption DEF Unlocked
  <1>4. QED  BY <1>2, <1>3 DEF PumpOn

LEMMA TaskTypesKept ==
    ASSUME TaskTypes, [Next]_vars
    PROVE  TaskTypes'
  <1> USE DEF TaskTypes
  <1>1. \A t : GrantedTo(t) \in SUBSET Permit  BY DEF GrantedTo, InHand
  <1>2. CASE UNCHANGED vars  BY <1>2 DEF vars
  <1>3. CASE MovesOn
    <2>1. CASE Ring  BY <2>1 DEF Ring, Registered
    <2>2. ASSUME NEW t \in Waiter, ProbeDone(t) \/ TurnedAway(t) \/ Register(t) \/ SettleLate(t)
          PROVE  TaskTypes'
      BY <2>2 DEF ProbeDone, TurnedAway, Register, SettleLate, Goes, Waiting
    <2>3. ASSUME NEW t \in Waiter, Settled(t) PROVE TaskTypes'
      <3>1. hold' \in [Waiter -> SUBSET Permit]  BY <1>1, <2>3 DEF Settled
      <3>2. stage' \in [Waiter -> Waiting \cup {"Out", "Refused", "Holding", "Advance", "Advancing",
                                                "Trying", "Notify"}]
        BY <2>3 DEF Settled, Goes, Waiting
      <3>3. UNCHANGED <<want, woken, alarm>> /\ owner' = NoWaiter /\ served' = FALSE
        BY <2>3 DEF Settled
      <3>4. QED  BY <3>1, <3>2, <3>3
    <2>4. ASSUME NEW t \in Waiter, Announce(t) \/ Notify(t) PROVE TaskTypes'
      BY <2>4 DEF Announce, Notify, Registered, Goes, Waiting
    <2>5. ASSUME NEW t \in Waiter, Wake(t) \/ Abandon(t) \/ Advanced(t) PROVE TaskTypes'
      BY <2>5 DEF Wake, Abandon, Advanced, Goes, Waiting
    <2>6. QED  BY <1>3, <2>1, <2>2, <2>3, <2>4, <2>5 DEF MovesOn
  <1>4. CASE Notes
    <2>1. PICK t \in Waiter :
            \/ Overdue(t)
            \/ \E claim \in Claim : AskBusy(t, claim) \/ AskDenied(t, claim) \/ AskManyRefused(t, claim)
      BY <1>4 DEF Notes
    <2>2. QED  BY <2>1 DEF Overdue, AskBusy, AskDenied, AskManyRefused, taskVars, Goes, Waiting
  <1>5. CASE Gets
    <2>1. PICK t \in Waiter, claim \in Claim : AskGranted(t, claim) \/ AskMany(t, claim)
      BY <1>5 DEF Gets
    <2>2. hold' \in [Waiter -> SUBSET Permit]
      <3>1. \E ids \in SUBSET Permit : hold' = [hold EXCEPT ![t] = ids]
        <4>1. CASE AskGranted(t, claim)
          <5>1. PICK p \in Permit : hold' = [hold EXCEPT ![t] = {p}]  BY <4>1 DEF AskGranted
          <5>2. {p} \in SUBSET Permit  OBVIOUS
          <5>3. QED  BY <5>1, <5>2
        <4>2. CASE AskMany(t, claim)  BY <4>2 DEF AskMany
        <4>3. QED  BY <2>1, <4>1, <4>2
      <3>2. QED  BY <3>1
    <2>3. Goes(t, "Holding") /\ UNCHANGED <<want, woken, owner, served, alarm>>
      BY <2>1 DEF AskGranted, AskMany
    <2>4. QED  BY <2>2, <2>3 DEF Goes
  <1>6. CASE PumpBegins
    <2>1. PICK t \in Waiter : Settle(t) \/ Advance(t) \/ \E claim \in Claim : Probe(t, claim)
      BY <1>6 DEF PumpBegins
    <2>2. /\ Goes(t, "Settling") \/ Goes(t, "Advancing") \/ Goes(t, "Trying")
          /\ owner' = t /\ UNCHANGED <<want, hold, woken, served, alarm>>
      BY <2>1 DEF Settle, Advance, Probe
    <2>3. QED  BY <2>2 DEF Goes, Waiting
  <1>7. CASE Joins
    <2>1. PICK t \in Waiter : Goes(t, "Listening") /\ UNCHANGED <<want, hold, woken, owner, served, alarm>>
      BY <1>7 DEF Joins, Join
    <2>2. QED  BY <2>1 DEF Goes, Waiting
  <1>8. CASE GivesBack
    <2>1. PICK t \in Waiter : DropGuard(t) \/ GiveBack(t)  BY <1>8 DEF GivesBack
    <2>2. hold' \in [Waiter -> SUBSET Permit]  BY <2>1 DEF DropGuard, GiveBack
    <2>3. /\ Goes(t, "Notify") \/ Goes(t, "Advance")
          /\ want' = [want EXCEPT ![t] = NoClaim] /\ UNCHANGED <<woken, owner, served, alarm>>
      BY <2>1 DEF DropGuard, GiveBack
    <2>4. QED  BY <2>2, <2>3 DEF Goes
  <1>9. CASE PumpOn
    <2>1. served' \in BOOLEAN /\ UNCHANGED <<stage, want, hold, woken, owner, alarm>>
      BY <1>9 DEF PumpOn
    <2>2. QED  BY <2>1
  <1>10. CASE Outside  BY <1>10 DEF Outside
  <1>11. QED
    BY <1>2, <1>3, <1>4, <1>5, <1>6, <1>7, <1>8, <1>9, <1>10, Steps

LEMMA MutexKept ==
    ASSUME OtherTypes, TaskTypes, MutexInv, [Next]_vars
    PROVE  MutexInv'
  <1> USE DEF MutexInv
  <1>0. NoWaiter \notin Waiter /\ stage \in [Waiter -> {stage[t] : t \in Waiter}]
    BY BudgetAssumption DEF TaskTypes
  <1>1. ASSUME pump' = pump, owner' = owner, \A t \in Waiter : stage'[t] \in Pumping => stage[t] \in Pumping,
               owner # NoWaiter => stage'[owner] = stage[owner]
        PROVE  MutexInv'
    BY <1>1 DEF Unlocked
  <1>2. ASSUME NEW t \in Waiter, NEW to, Goes(t, to), to \notin Pumping,
               owner' = owner, pump' = pump, stage[t] \notin Pumping
        PROVE  MutexInv'
    <2>1. owner # t  BY <1>0, <1>2
    <2>2. \A u \in Waiter : u # t => stage'[u] = stage[u]  BY <1>0, <1>2 DEF Goes
    <2>3. stage'[t] = to  BY <1>0, <1>2 DEF Goes
    <2>4. owner # NoWaiter => owner \in Waiter  BY DEF TaskTypes
    <2>5. QED  BY <1>1, <1>2, <2>1, <2>2, <2>3, <2>4
  <1>3. ASSUME NEW t \in Waiter, NEW to, Goes(t, to), to \notin Pumping,
               owner = t, owner' = NoWaiter, pump' = pump, Unlocked
        PROVE  MutexInv'
    <2>1. \A u \in Waiter : u # t => stage'[u] = stage[u]  BY <1>0, <1>3 DEF Goes
    <2>2. stage'[t] = to  BY <1>0, <1>3 DEF Goes
    <2>3. \A u \in Waiter : stage'[u] \notin Pumping  BY <1>3, <2>1, <2>2
    <2>4. QED  BY <1>3, <2>3 DEF Unlocked
  <1>4. CASE UNCHANGED vars  BY <1>4, <1>1 DEF vars
  <1>5. CASE MovesOn
    <2>1. CASE Ring  BY <2>1, <1>1 DEF Ring, ledger
    <2>2. ASSUME NEW t \in Waiter,
                 \/ ProbeDone(t) \/ TurnedAway(t) \/ Register(t) \/ SettleLate(t)
                 \/ Settled(t) \/ Announce(t) \/ Wake(t) \/ Abandon(t)
                 \/ Advanced(t) \/ Notify(t)
          PROVE  MutexInv'
      <3>1. CASE ProbeDone(t)  BY <3>1, <1>3 DEF ProbeDone, ledger, Pumping
      <3>2. CASE Settled(t)
        <4>1. \E to \in {"Announce", "Asleep", "Holding"} : Goes(t, to)  BY <3>2 DEF Settled
        <4>2. QED  BY <3>2, <4>1, <1>3 DEF Settled, ledger, Pumping
      <3>3. CASE Advanced(t)  BY <3>3, <1>3 DEF Advanced, ledger, Pumping
      <3>4. CASE TurnedAway(t)  BY <3>4, <1>2 DEF TurnedAway, ledger, Pumping
      <3>5. CASE Register(t)
        <4>1. \E to \in {"Late", "Check"} : Goes(t, to)  BY <3>5 DEF Register
        <4>2. QED  BY <3>5, <4>1, <1>2 DEF Register, ledger, Pumping
      <3>6. CASE SettleLate(t)  BY <3>6, <1>2 DEF SettleLate, ledger, Pumping
      <3>7. CASE Announce(t)
        <4>1. \E to \in {"Asleep", "Holding"} : Goes(t, to)  BY <3>7 DEF Announce
        <4>2. QED  BY <3>7, <4>1, <1>2 DEF Announce, ledger, Pumping
      <3>8. CASE Notify(t)
        <4>1. \E to \in {"Out", "Holding"} : Goes(t, to)  BY <3>8 DEF Notify
        <4>2. QED  BY <3>8, <4>1, <1>2 DEF Notify, ledger, Pumping
      <3>9. CASE Wake(t) \/ Abandon(t)  BY <3>9, <1>2 DEF Wake, Abandon, ledger, Pumping
      <3>10. QED
        BY <2>2, <3>1, <3>2, <3>3, <3>4, <3>5, <3>6, <3>7, <3>8, <3>9
    <2>3. QED  BY <1>5, <2>1, <2>2 DEF MovesOn
  <1>6. CASE Notes
    <2>1. PICK t \in Waiter :
            \/ Overdue(t)
            \/ \E claim \in Claim : AskBusy(t, claim) \/ AskDenied(t, claim) \/ AskManyRefused(t, claim)
      BY <1>6 DEF Notes
    <2>2. ASSUME NEW claim \in Claim, AskBusy(t, claim) PROVE MutexInv'
      BY <2>2, <1>2 DEF AskBusy, Pumping
    <2>3. ASSUME NEW claim \in Claim,
                 Overdue(t) \/ AskDenied(t, claim) \/ AskManyRefused(t, claim)
          PROVE MutexInv'
      BY <2>3, <1>1 DEF Overdue, AskDenied, AskManyRefused, Ensure, taskVars
    <2>4. CASE Overdue(t)  BY <2>4, <1>1 DEF Overdue, taskVars
    <2>5. QED  BY <2>1, <2>2, <2>3, <2>4
  <1>7. CASE Gets
    <2>1. PICK t \in Waiter, claim \in Claim : AskGranted(t, claim) \/ AskMany(t, claim)
      BY <1>7 DEF Gets
    <2>2. /\ Goes(t, "Holding") /\ owner' = owner /\ pump' = pump /\ stage[t] = "Out"
      BY <2>1 DEF AskGranted, AskMany, Admit, AdmitMany
    <2>3. QED  BY <2>2, <1>2 DEF Pumping
  <1>8. CASE PumpBegins
    <2>1. PICK t \in Waiter : Settle(t) \/ Advance(t) \/ \E claim \in Claim : Probe(t, claim)
      BY <1>8 DEF PumpBegins
    <2>2. /\ \E to \in Pumping : Goes(t, to)
          /\ owner' = t /\ owner = NoWaiter /\ \E gone : PumpStart(gone)
      BY <2>1 DEF Settle, Advance, Probe, Pumping, MutexFree
    <2>3. Unlocked' => pump'.todo = {}
      <3>1. Visit(known) /\ known \in SUBSET Service  BY <2>2 DEF PumpStart, OtherTypes
      <3>2. QED  BY <3>1, VisitIs
    <2>4. \A u \in Waiter : u # t => stage'[u] = stage[u]  BY <1>0, <2>2 DEF Goes
    <2>5. stage'[t] \in Pumping  BY <1>0, <2>2 DEF Goes
    <2>6. \A u \in Waiter : stage[u] \notin Pumping  BY <1>0, <2>2
    <2>7. QED  BY <1>0, <2>2, <2>3, <2>4, <2>5, <2>6
  <1>9. CASE Joins
    <2>1. PICK t \in Waiter : Join(t)  BY <1>9 DEF Joins
    <2>2. QED  BY <2>1, <1>2 DEF Join, Enqueue, Pumping
  <1>10. CASE GivesBack
    <2>1. PICK t \in Waiter : DropGuard(t) \/ GiveBack(t)  BY <1>10 DEF GivesBack
    <2>2. QED  BY <2>1, <1>2 DEF DropGuard, GiveBack, Pumping
  <1>11. CASE PumpOn
    <2>1. owner # NoWaiter /\ UNCHANGED <<stage, owner>>  BY <1>11 DEF PumpOn
    <2>2. Unlocked' => pump'.todo = {}
      <3>1. CASE pump'.service = pump.service /\ pump'.todo = pump.todo  BY <3>1 DEF Unlocked
      <3>2. CASE PumpNext(pump.service)
        <4>1. Visit(pump.todo) /\ pump.todo \in SUBSET Service  BY <3>2 DEF PumpNext, OtherTypes
        <4>2. QED  BY <4>1, VisitIs
      <3>3. QED  BY <1>11, <3>1, <3>2, PumpOnIs
    <2>3. QED  BY <2>1, <2>2
  <1>12. CASE Outside
    BY <1>12, <1>1 DEF Outside, Attach, Detach, DrainConnection, DrainOrganization, DrainNode
  <1>13. QED
    BY <1>4, <1>5, <1>6, <1>7, <1>8, <1>9, <1>10, <1>11, <1>12, Steps

--------------------------------------------------------------------------------
(* Queues, as the tasks see them.                                               *)

\* Nobody who goes is left.
LEMMA WithoutRemoves ==
    ASSUME NEW s, NEW c, NEW lanes, WellQueue(lanes, s, c), NEW gone
    PROVE  \A e \in EntriesOf(Without(lanes, gone)) : e.id \notin gone
  <1> DEFINE rests == [i \in DOMAIN lanes |-> Rest(lanes[i], gone)]
             at == {i \in DOMAIN lanes : Staying(lanes[i], gone) # {}}
             left == Selected(rests, at)
  <1>1. Without(lanes, gone) = left  BY DEF Without
  <1>2. \A i \in DOMAIN lanes : lanes[i] \in Lane /\ LaneWell(lanes[i], s, c)
    BY DEF WellQueue
  <1>3. \A k \in DOMAIN left : \E i \in DOMAIN lanes : left[k] = Rest(lanes[i], gone)
    <2>1. \A i \in DOMAIN lanes : Rest(lanes[i], gone) \in Lane  BY <1>2, RestIs
    <2>2. rests \in Seq(Lane)
      <3>1. Len(lanes) \in Nat /\ DOMAIN lanes = 1..Len(lanes)  BY DEF WellQueue
      <3>2. QED  BY <2>1, <3>1
    <2>3. at \in SUBSET (DOMAIN rests)  OBVIOUS
    <2> HIDE DEF rests, at
    <2>4. /\ DOMAIN Selected(rests, at) = 1..Cardinality(at)
          /\ \A k \in 1..Cardinality(at) : Nth(at, k) \in at /\ Selected(rests, at)[k] = rests[Nth(at, k)]
      BY <2>2, <2>3, SelectedIs
    <2>5. QED  BY <2>4 DEF left, rests, at
  <1>4. ASSUME NEW i \in DOMAIN lanes
        PROVE  \A e \in LaneWaiters(Rest(lanes[i], gone)) : e.id \notin gone
    <2> DEFINE lane == lanes[i]
               stay == Staying(lane, gone)
               w == lane.waiters
               few == Selected(w, stay)
    <2>1. w \in Seq(Entry)  BY <1>2 DEF Lane
    <2>2. stay \in SUBSET (DOMAIN w) /\ \A k \in stay : w[k].id \notin gone  BY DEF Staying
    <2>3. Rest(lane, gone).waiters = few
      <3>1. lane = [principal |-> lane.principal, waiters |-> lane.waiters]  BY <1>2 DEF Lane
      <3>2. QED  BY <3>1 DEF Rest
    <2>4. \A k \in DOMAIN few : few[k].id \notin gone
      <3> HIDE DEF w, stay
      <3>1. /\ DOMAIN few = 1..Cardinality(stay)
            /\ \A k \in 1..Cardinality(stay) : Nth(stay, k) \in stay /\ few[k] = w[Nth(stay, k)]
        BY <2>1, <2>2, SelectedIs
      <3>2. QED  BY <2>2, <3>1
    <2> HIDE DEF few
    <2>5. QED  BY <2>3, <2>4 DEF LaneWaiters
  <1> HIDE DEF left
  <1>5. \A e \in EntriesOf(left) : e.id \notin gone
    <2> TAKE e \in EntriesOf(left)
    <2>1. PICK k \in DOMAIN left : e \in LaneWaiters(left[k])  BY DEF EntriesOf
    <2>2. QED  BY <1>3, <1>4, <2>1
  <1>6. QED  BY <1>1, <1>5

LEMMA LeaveGone ==
    ASSUME QueuesInOrder, NEW gone, Leave(gone)
    PROVE  \A w \in Queued' : w \notin gone
  <1> TAKE w \in Queued'
  <1>1. PICK s \in Service, c \in Class : \E e \in WaitersIn(s, c)' : w = e.id
    BY DEF Queued, Waiters
  <1>2. PICK e \in WaitersIn(s, c)' : w = e.id  BY <1>1
  <1>3. WellQueue(queue[s][c], s, c) /\ queue'[s][c] = Without(queue[s][c], gone)
    BY DEF QueuesInOrder, Leave
  <1>4. WaitersIn(s, c)' = EntriesOf(queue'[s][c])  BY DEF WaitersIn, EntriesOf
  <1>5. QED  BY <1>2, <1>3, <1>4, WithoutRemoves

\* Only who joins comes.
LEMMA OnlyJoinsCome ==
    ASSUME LedgerInv, [Next]_vars, ~Joins
    PROVE  \A s \in Service, c \in Class : WaitersIn(s, c)' \subseteq WaitersIn(s, c)
  <1>1. QueuesInOrder /\ Once /\ AccountTypes /\ credit \in [Service -> [SharedMembers -> Int]]
    BY DEF LedgerInv, QueuesInv, AccountsInv, OtherTypes
  <1>2. ASSUME queue' = queue
        PROVE  \A s \in Service, c \in Class : WaitersIn(s, c)' \subseteq WaitersIn(s, c)
    BY <1>2, SameQueues
  <1>3. ASSUME NEW gone, Leave(gone)
        PROVE  \A s \in Service, c \in Class : WaitersIn(s, c)' \subseteq WaitersIn(s, c)
    BY <1>1, <1>3, LeaveMoves
  <1>4. CASE UNCHANGED vars \/ MovesOn
    <2>1. queue' = queue  BY <1>4, MovesOnLedger DEF vars, ledgerVars
    <2>2. QED  BY <1>2, <2>1
  <1>5. CASE Notes
    <2>1. queue' = queue  BY <1>5, NotesLedger DEF RestStep, LedgerInv
    <2>2. QED  BY <1>2, <2>1
  <1>6. CASE Gets
    <2>1. queue' = queue  BY <1>6, AskedIs DEF Gets
    <2>2. QED  BY <1>2, <2>1
  <1>7. CASE PumpBegins
    <2>1. \E gone : Leave(gone)  BY <1>7 DEF PumpBegins, Settle, Advance, Probe, PumpStart
    <2>2. QED  BY <1>3, <2>1
  <1>8. CASE GivesBack
    <2>1. queue' = queue \/ \E gone : Leave(gone)  BY <1>8 DEF GivesBack, DropGuard, GiveBack
    <2>2. QED  BY <1>2, <1>3, <2>1
  <1>9. CASE PumpOn
    <2>1. CASE PumpGrant
      <3>1. ServeStep  BY <1>1, <2>1, PumpServes
      <3>2. PICK s \in Service, c \in Class : queue[s][c] # <<>> /\ Pops(s, c)
        BY <3>1 DEF ServeStep
      <3>3. QED  BY <1>1, <3>2, ServeMoves
    <2>2. CASE \E s \in Service : PumpNext(s)
      <3>1. queue' = queue  BY <2>2 DEF PumpNext
      <3>2. QED  BY <1>2, <3>1
    <2>3. QED  BY <1>9, <2>1, <2>2 DEF PumpOn
  <1>10. CASE Outside
    <2>1. queue' = queue
      BY <1>10 DEF Outside, Attach, Detach, DrainConnection, DrainOrganization, DrainNode
    <2>2. QED  BY <1>2, <2>1
  <1>11. QED  BY <1>4, <1>5, <1>6, <1>7, <1>8, <1>9, <1>10, Steps

\* Whoever joins is the one who comes.
LEMMA JoinComes ==
    ASSUME LedgerInv, TaskTypes, NEW t \in Waiter, Join(t)
    PROVE  /\ \A s \in Service, c \in Class : \A e \in WaitersIn(s, c)' :
                 e \in WaitersIn(s, c) \/ (e.id = t /\ s \in known)
           /\ Queued' \subseteq Queued \cup {t}
           /\ t \notin Queued
  <1>1. QueuesInOrder /\ OtherTypes  BY DEF LedgerInv, QueuesInv
  <1>2. PICK claim \in Claim : Enqueue(claim, t)  BY <1>1, JoinsClaim
  <1>3. PICK x : x = [id |-> t, claim |-> claim]  OBVIOUS
  <1>4. /\ \A s \in Service, c \in Class : WaitersIn(s, c)' =
              IF s = claim.service /\ c = claim.class
              THEN WaitersIn(claim.service, claim.class) \cup {x} ELSE WaitersIn(s, c)
        /\ t \notin Queued
    BY <1>1, <1>2, <1>3, EnqueueMoves
  <1>5. claim.service \in known /\ x.id = t  BY <1>2, <1>3 DEF Enqueue
  <1>6. \A s \in Service, c \in Class : \A e \in WaitersIn(s, c)' :
                 e \in WaitersIn(s, c) \/ (e.id = t /\ s \in known)
    BY <1>4, <1>5
  <1>7. Queued' \subseteq Queued \cup {t}
    <2> SUFFICES ASSUME NEW w \in Queued' PROVE w \in Queued \cup {t}  OBVIOUS
    <2>1. PICK s \in Service, c \in Class : \E e \in WaitersIn(s, c)' : w = e.id
      BY DEF Queued, Waiters
    <2>2. PICK e \in WaitersIn(s, c)' : w = e.id  BY <2>1
    <2>3. QED  BY <1>6, <2>2, WaitersAre, QueuedAre
  <1>8. QED  BY <1>4, <1>6, <1>7

\* Services nobody knows have no waiters.
KnownInv == \A s \in Service, c \in Class : WaitersIn(s, c) # {} => s \in known

LEMMA KnownGrows ==
    ASSUME LedgerInv, TaskTypes, HoldsInHand, [Next]_vars
    PROVE  known \subseteq known'
  <1>1. CASE UNCHANGED vars \/ MovesOn  BY <1>1, MovesOnLedger DEF vars, ledgerVars
  <1>2. CASE Notes  BY <1>2, NotesLedger DEF LedgerInv
  <1>3. CASE Gets \/ PumpBegins \/ Joins
    <2>1. Gets => known \subseteq known'  BY AskedIs DEF Gets
    <2>2. PumpBegins \/ Joins => known' = known
      BY DEF PumpBegins, Settle, Advance, Probe, PumpStart, Joins, Join, Enqueue
    <2>3. QED  BY <1>3, <2>1, <2>2
  <1>4. CASE GivesBack  BY <1>4, GivesBackLedger
  <1>5. CASE PumpOn \/ Outside
    BY <1>5 DEF PumpOn, PumpGrant, PumpReserved, PumpShared, PumpNext,
                Outside, Attach, Detach, DrainConnection, DrainOrganization, DrainNode
  <1>6. QED  BY <1>1, <1>2, <1>3, <1>4, <1>5, Steps

LEMMA KnownKept ==
    ASSUME LedgerInv, TaskTypes, HoldsInHand, KnownInv, [Next]_vars
    PROVE  KnownInv'
  <1> SUFFICES ASSUME NEW s \in Service, NEW c \in Class, NEW e \in WaitersIn(s, c)'
               PROVE  s \in known'
    BY DEF KnownInv
  <1>1. known \subseteq known'  BY KnownGrows
  <1>2. CASE ~Joins  BY <1>1, <1>2, OnlyJoinsCome DEF KnownInv
  <1>3. CASE Joins
    <2>1. PICK t \in Waiter : Join(t)  BY <1>3 DEF Joins
    <2>2. QED  BY <1>1, <2>1, JoinComes DEF KnownInv
  <1>4. QED  BY <1>2, <1>3

--------------------------------------------------------------------------------
(* Who holds what.                                                              *)

Keeping == {"Holding", "Announce", "Advance", "Advancing", "Notify"}

\* Where a task can be, by what it holds, is granted and waits for.
TaskPlace(t) ==
    /\ hold[t] # {} => stage[t] \in Keeping
    /\ stage[t] = "Announce" => hold[t] \subseteq GrantedTo(t)
    /\ t \in Queued => stage[t] \in Waiting
    /\ GrantedTo(t) \subseteq hold[t] \/ stage[t] \in Waiting

OneEach == \A t, u \in Waiter : \A p \in hold[t] : p \in hold[u] => t = u

\* A permit granted to no waiter is in the hands of a task.
Accounted == \A p \in InHand : permits[p].waiter = NoWaiter => \E t \in Waiter : p \in hold[t]

HoldInv == HoldsInHand /\ OneEach /\ Accounted /\ \A t \in Waiter : TaskPlace(t)

LEMMA SamePermits ==
    ASSUME permits' = permits
    PROVE  InHand' = InHand /\ \A t : GrantedTo(t)' = GrantedTo(t)
  BY DEF InHand, GrantedTo

\* A permit granted to a waiter is the only one, and the waiter is out of the queues.
LEMMA GrantedOnce ==
    ASSUME PermitWaiters, NEW t \in Waiter, NEW p \in GrantedTo(t)
    PROVE  t \notin Queued /\ GrantedTo(t) = {p}
  BY BudgetAssumption DEF GrantedTo, PermitWaiters

LEMMA HoldSame ==
    ASSUME HoldInv, UNCHANGED <<stage, hold, permits>>, Queued' \subseteq Queued
    PROVE  HoldInv'
  <1>1. InHand' = InHand /\ \A t : GrantedTo(t)' = GrantedTo(t)  BY SamePermits
  <1>2. HoldsInHand' /\ OneEach' /\ Accounted'
    BY <1>1 DEF HoldInv, HoldsInHand, OneEach, Accounted
  <1>3. \A t \in Waiter : TaskPlace(t)'  BY <1>1 DEF HoldInv, TaskPlace
  <1>4. QED  BY <1>2, <1>3 DEF HoldInv

\* A task moves on with what it holds.
LEMMA HoldGoes ==
    ASSUME HoldInv, TaskTypes, UNCHANGED <<hold, permits>>,
           NEW t \in Waiter, NEW to, Goes(t, to),
           \A u \in Queued' : u \in Queued \/ u = t,
           hold[t] # {} => to \in Keeping,
           to = "Announce" => hold[t] \subseteq GrantedTo(t),
           to \in Waiting \/ (t \notin Queued' /\ GrantedTo(t) \subseteq hold[t])
    PROVE  HoldInv'
  <1>1. InHand' = InHand /\ \A u : GrantedTo(u)' = GrantedTo(u)  BY SamePermits
  <1>2. HoldsInHand' /\ OneEach' /\ Accounted'
    BY <1>1 DEF HoldInv, HoldsInHand, OneEach, Accounted
  <1>3. stage'[t] = to /\ \A u \in Waiter : u # t => stage'[u] = stage[u]
    BY DEF Goes, TaskTypes
  <1>4. TaskPlace(t)'  BY <1>1, <1>3 DEF TaskPlace
  <1>5. \A u \in Waiter : u # t => TaskPlace(u)'
    BY <1>1, <1>3 DEF HoldInv, TaskPlace
  <1>6. QED  BY <1>2, <1>4, <1>5 DEF HoldInv

LEMMA MovesOnHold ==
    ASSUME LedgerInv, TaskTypes, HoldInv, MovesOn
    PROVE  HoldInv'
  <1>0. PermitWaiters  BY DEF LedgerInv, QueuesInv
  <1>1. UNCHANGED ledgerVars  BY MovesOnLedger
  <1>2. permits' = permits /\ Queued' = Queued  BY <1>1, SameQueues DEF ledgerVars
  <1>3. CASE Ring  BY <1>2, <1>3, HoldSame DEF Ring
  <1>4. ASSUME NEW t \in Waiter,
               \/ ProbeDone(t) \/ TurnedAway(t) \/ Register(t) \/ SettleLate(t)
               \/ Settled(t) \/ Announce(t) \/ Wake(t) \/ Abandon(t)
               \/ Advanced(t) \/ Notify(t)
        PROVE  HoldInv'
    <2> USE DEF Waiting, Keeping
    <2>0. TaskPlace(t)  BY DEF HoldInv
    <2>1. CASE ProbeDone(t) \/ TurnedAway(t)
      <3>1. Goes(t, "Out") /\ hold' = hold /\ stage[t] \in {"Trying", "Refused"}
        BY <2>1 DEF ProbeDone, TurnedAway
      <3>2. hold[t] = {} /\ t \notin Queued /\ GrantedTo(t) \subseteq hold[t]
        BY <2>0, <3>1 DEF TaskPlace
      <3>3. QED  BY <1>2, <3>1, <3>2, HoldGoes
    <2>2. CASE Register(t) \/ SettleLate(t) \/ Wake(t) \/ Abandon(t)
      <3>1. PICK to \in {"Late", "Check", "Dropping", "Listening"} : Goes(t, to)
        BY <2>2 DEF Register, SettleLate, Wake, Abandon
      <3>2. hold' = hold /\ stage[t] \in {"Listening", "Late", "Asleep"}
        BY <2>2 DEF Register, SettleLate, Wake, Abandon
      <3>3. hold[t] = {}  BY <2>0, <3>2 DEF TaskPlace
      <3>4. to \in Waiting /\ to # "Announce"  BY <3>1
      <3>5. QED  BY <1>2, <3>1, <3>2, <3>3, <3>4, HoldGoes
    <2>3. CASE Advanced(t)
      <3>1. Goes(t, "Notify") /\ hold' = hold /\ stage[t] = "Advancing"  BY <2>3 DEF Advanced
      <3>2. t \notin Queued /\ GrantedTo(t) \subseteq hold[t]  BY <2>0, <3>1 DEF TaskPlace
      <3>3. QED  BY <1>2, <3>1, <3>2, HoldGoes
    <2>4. CASE Notify(t)
      <3>1. PICK to : /\ to = IF hold[t] = {} THEN "Out" ELSE "Holding"
                      /\ Goes(t, to) /\ hold' = hold /\ stage[t] = "Notify"
        BY <2>4 DEF Notify
      <3>2. t \notin Queued /\ GrantedTo(t) \subseteq hold[t]  BY <2>0, <3>1 DEF TaskPlace
      <3>3. (hold[t] # {} => to \in Keeping) /\ to # "Announce"  BY <3>1
      <3>4. QED  BY <1>2, <3>1, <3>2, <3>3, HoldGoes
    <2>5. CASE Announce(t)
      <3>1. PICK to : /\ to = IF hold[t] = {} THEN "Asleep" ELSE "Holding"
                      /\ Goes(t, to) /\ hold' = hold /\ stage[t] = "Announce"
        BY <2>5 DEF Announce
      <3>2. hold[t] \subseteq GrantedTo(t)  BY <2>0, <3>1 DEF TaskPlace
      <3>3. hold[t] # {} => t \notin Queued /\ GrantedTo(t) \subseteq hold[t]
        BY <1>0, <3>2, GrantedOnce
      <3>4. /\ hold[t] # {} => to \in Keeping
            /\ to # "Announce"
            /\ hold[t] = {} => to \in Waiting
        BY <3>1
      <3>5. QED  BY <1>2, <3>1, <3>3, <3>4, HoldGoes
    <2>6. CASE Settled(t)
      <3>1. /\ stage[t] = "Settling"
            /\ hold' = [hold EXCEPT ![t] = GrantedTo(t)]
        BY <2>6 DEF Settled
      <3>2. PICK to : /\ to = IF served THEN "Announce"
                              ELSE IF GrantedTo(t) = {} THEN "Asleep" ELSE "Holding"
                      /\ Goes(t, to)
        BY <2>6 DEF Settled
      <3>3. stage'[t] = to /\ \A u \in Waiter : u # t => stage'[u] = stage[u]
        BY <3>2 DEF Goes, TaskTypes
      <3>4. /\ hold'[t] = GrantedTo(t) /\ hold[t] = {}
            /\ \A u \in Waiter : u # t => hold'[u] = hold[u]
        BY <2>0, <3>1 DEF TaskTypes, TaskPlace
      <3>5. InHand' = InHand /\ \A u : GrantedTo(u)' = GrantedTo(u)  BY <1>2, SamePermits
      <3>6. \A p \in GrantedTo(t) : p \in InHand /\ permits[p].waiter = t  BY DEF GrantedTo
      <3>7. HoldsInHand'
        BY <1>2, <3>4, <3>5, <3>6 DEF HoldInv, HoldsInHand
      <3>8. \A u \in Waiter : u # t => \A p \in GrantedTo(t) : p \notin hold[u]
        BY <3>6, BudgetAssumption DEF HoldInv, HoldsInHand
      <3>9. OneEach'  BY <3>4, <3>8 DEF HoldInv, OneEach
      <3>10. Accounted'  BY <1>2, <3>4, <3>5 DEF HoldInv, Accounted
      <3>11. GrantedTo(t) # {} => t \notin Queued  BY <1>0, GrantedOnce
      <3>12. TaskPlace(t)'
        <4>1. to \in Keeping \/ GrantedTo(t) = {}  BY <3>2
        <4>2. to \in Waiting \/ GrantedTo(t) # {}  BY <3>2
        <4>3. QED  BY <1>2, <3>3, <3>4, <3>5, <3>11, <4>1, <4>2 DEF TaskPlace
      <3>13. \A u \in Waiter : u # t => TaskPlace(u)'
        BY <1>2, <3>3, <3>4, <3>5 DEF HoldInv, TaskPlace
      <3>14. QED  BY <3>7, <3>9, <3>10, <3>12, <3>13 DEF HoldInv
    <2>7. QED  BY <1>4, <2>1, <2>2, <2>3, <2>4, <2>5, <2>6
  <1>5. QED  BY <1>3, <1>4 DEF MovesOn

\* A new permit, for no waiter or for one that is still queued.
LEMMA HoldGrants ==
    ASSUME HoldInv, TaskTypes, LedgerInv, Queued' \subseteq Queued,
           NEW ids \in SUBSET Permit, ids \cap InHand = {},
           InHand' = InHand \cup ids, \A p \in InHand : permits'[p] = permits[p],
           NEW t \in Waiter,
           \/ /\ \A p \in ids : permits'[p].waiter = NoWaiter
              /\ hold' = [hold EXCEPT ![t] = ids]
              /\ stage[t] = "Out" /\ Goes(t, "Holding")
           \/ /\ \A p \in ids : permits'[p].waiter = t
              /\ t \in Queued
              /\ UNCHANGED <<hold, stage>>
    PROVE  HoldInv'
  <1> USE DEF HoldInv
  <1>0. NoWaiter \notin Waiter  BY BudgetAssumption
  <1>1. \A u \in Waiter : \A p \in hold[u] : p \in InHand /\ p \notin ids
    BY DEF HoldsInHand
  <1>2. CASE /\ \A p \in ids : permits'[p].waiter = NoWaiter
             /\ hold' = [hold EXCEPT ![t] = ids]
             /\ stage[t] = "Out" /\ Goes(t, "Holding")
    <2>1. /\ stage'[t] = "Holding" /\ \A u \in Waiter : u # t => stage'[u] = stage[u]
          /\ hold'[t] = ids /\ \A u \in Waiter : u # t => hold'[u] = hold[u]
      BY <1>2 DEF Goes, TaskTypes
    <2>2. \A u \in Waiter : GrantedTo(u)' = GrantedTo(u)  BY <1>0, <1>2 DEF GrantedTo
    <2>3. hold[t] = {} /\ t \notin Queued /\ GrantedTo(t) = {}
      BY <1>2 DEF TaskPlace, Keeping, Waiting
    <2>4. HoldsInHand'  BY <1>2, <2>1 DEF HoldsInHand
    <2>5. OneEach'  BY <1>1, <2>1 DEF OneEach
    <2>6. Accounted'
      <3> SUFFICES ASSUME NEW p \in InHand', permits'[p].waiter = NoWaiter
                   PROVE  \E u \in Waiter : p \in hold'[u]
        BY DEF Accounted
      <3>1. CASE p \in ids  BY <2>1, <3>1
      <3>2. CASE p \in InHand
        <4>1. PICK u \in Waiter : p \in hold[u]  BY <3>2 DEF Accounted
        <4>2. u # t  BY <2>3, <4>1
        <4>3. QED  BY <2>1, <4>1, <4>2
      <3>3. QED  BY <3>1, <3>2
    <2>7. \A u \in Waiter : TaskPlace(u)'
      BY <2>1, <2>2, <2>3 DEF TaskPlace, Keeping, Waiting
    <2>8. QED  BY <2>4, <2>5, <2>6, <2>7
  <1>3. CASE /\ \A p \in ids : permits'[p].waiter = t
             /\ t \in Queued
             /\ UNCHANGED <<hold, stage>>
    <2>1. /\ \A u \in Waiter : u # t => GrantedTo(u)' = GrantedTo(u)
          /\ GrantedTo(t) \subseteq GrantedTo(t)'
      BY <1>3 DEF GrantedTo
    <2>2. HoldsInHand'  BY <1>1, <1>3 DEF HoldsInHand
    <2>3. OneEach'  BY <1>3 DEF OneEach
    <2>4. Accounted'  BY <1>0, <1>3 DEF Accounted
    <2>5. TaskPlace(t)'  BY <1>3, <2>1 DEF TaskPlace
    <2>6. \A u \in Waiter : u # t => TaskPlace(u)'  BY <1>3, <2>1 DEF TaskPlace
    <2>7. QED  BY <2>2, <2>3, <2>4, <2>5, <2>6
  <1>4. QED  BY <1>2, <1>3

LEMMA GetsHold ==
    ASSUME HoldInv, TaskTypes, LedgerInv, Gets
    PROVE  HoldInv'
  <1>1. PICK t \in Waiter, claim \in Claim : AskGranted(t, claim) \/ AskMany(t, claim)  BY DEF Gets
  <1>2. /\ stage[t] = "Out" /\ Goes(t, "Holding") /\ Queued' = Queued
    BY <1>1, AskedIs, SameQueues
  <1>3. PICK ids \in SUBSET Permit :
                 /\ \A p \in ids : /\ permits[p] = NoPermit /\ permits'[p] # NoPermit
                                   /\ permits'[p].waiter = NoWaiter
                 /\ \A p \in Permit \ ids : permits'[p] = permits[p]
                 /\ hold' = [hold EXCEPT ![t] = ids]
    BY <1>1, AskedIs
  <1>4. /\ ids \cap InHand = {} /\ InHand' = InHand \cup ids
        /\ \A p \in InHand : permits'[p] = permits[p]
    BY <1>3 DEF InHand
  <1>5. QED  BY <1>2, <1>3, <1>4, HoldGrants

\* What a grant of the pump does: the head of a queue gets a permit.
LEMMA GrantIs ==
    ASSUME LedgerInv, PumpGrant
    PROVE  \E s \in Service, c \in Class, p \in Permit, w \in Waiter :
              /\ p \notin InHand /\ InHand' = InHand \cup {p}
              /\ permits'[p].waiter = w
              /\ \A q \in InHand : permits'[q] = permits[q]
              /\ w \in Queued /\ Queued' \subseteq Queued
              /\ \E e \in WaitersIn(s, c) : e.id = w
              /\ s \notin draining /\ Physical(s) < PhysicalCap /\ Slots(s, c) # {}
              /\ PumpGrant
  <1>1. AccountTypes /\ QueuesInOrder /\ Once /\ credit \in [Service -> [SharedMembers -> Int]]
    BY DEF LedgerInv, AccountsInv, QueuesInv, OtherTypes
  <1>2. ServeStep  BY <1>1, PumpServes, SMTT(60)
  <1>3. PICK s \in Service, c \in Class, p \in Permit, slot \in {"Reserved", "Shared"} :
            LET e == Head(Head(queue[s][c]).waiters)
            IN /\ queue[s][c] # <<>>
               /\ Grants([q \in {p} |-> [claim |-> ClaimOf(e.claim), slot |-> slot, waiter |-> e.id]])
               /\ Pops(s, c)
    BY <1>2 DEF ServeStep
  <1>4. PICK e : e = Head(Head(queue[s][c]).waiters)  OBVIOUS
  <1>5. PICK g : g = [q \in {p} |-> [claim |-> ClaimOf(e.claim), slot |-> slot, waiter |-> e.id]]
    OBVIOUS
  <1>6. Grants(g) /\ queue[s][c] # <<>> /\ Pops(s, c)  BY <1>3, <1>4, <1>5
  <1>7. /\ e \in Entry /\ e.claim.service = s /\ e.claim.class = c
        /\ \A t \in Service, d \in Class : WaitersIn(t, d)' \subseteq WaitersIn(t, d)
        /\ e \in Waiters
    BY <1>1, <1>4, <1>6, ServeMoves
  <1>8. DOMAIN g = {p} /\ g[p].waiter = e.id /\ g[p].claim.service = s /\ g[p].claim.class = c
        /\ g[p].slot = slot
    BY <1>5, <1>7 DEF ClaimOf, Entry, ClaimType
  <1>9. /\ InHand' = InHand \cup {p} /\ permits'[p].waiter = e.id
        /\ \A q \in InHand : permits'[q] = permits[q]
    <2>1. /\ InHand' = InHand \cup DOMAIN g
          /\ \A q \in DOMAIN g : permits'[q] = g[q]
          /\ \A q \in InHand : permits'[q] = permits[q]
      BY <1>1, <1>6, GrantsAdd
    <2>2. QED  BY <1>8, <2>1
  <1>10. permits[p] = NoPermit /\ s \notin draining  BY <1>6, <1>8 DEF Grants
  <1>11. p \notin InHand  BY <1>10 DEF InHand
  <1>12. e.id \in Queued /\ e.id \in Waiter  BY <1>7, QueuedAre DEF Entry
  <1>13. Queued' \subseteq Queued  BY <1>7, FewerWaiters
  <1>14. e \in WaitersIn(s, c)
    <2>1. PICK t \in Service, d \in Class : e \in WaitersIn(t, d)  BY <1>7, WaitersAre
    <2>2. WellQueue(queue[t][d], t, d) /\ e \in EntriesOf(queue[t][d])
      BY <1>1, <2>1, WaitersInIs DEF QueuesInOrder
    <2>3. t = s /\ d = c  BY <1>7, <2>2, EntriesBelong
    <2>4. QED  BY <2>1, <2>3
  <1>15. Here(g, s) = {p}  BY <1>8 DEF Here
  <1>16. Cardinality({p}) = 1  BY FS_Singleton
  <1>17. Physical(s) < PhysicalCap
    <2>1. Physical(s) + 1 <= PhysicalCap  BY <1>6, <1>15, <1>16 DEF Grants
    <2>2. QED  BY <1>1, <2>1, PhysicalIs, BudgetAssumption
  <1>18. Slots(s, c) # {}
    <2>1. CASE slot = "Reserved"
      <3>1. Taken(g, s, c, "Reserved") = {p}  BY <1>8, <1>15, <2>1 DEF Taken
      <3>2. reservedUse[s][c] + 1 <= Reserved[c]  BY <1>6, <1>16, <3>1 DEF Grants
      <3>3. Headroom(s, c) > 0
        <4>1. reservedUse[s][c] \in Nat /\ Reserved[c] \in Nat
          BY <1>1, BudgetAssumption DEF AccountTypes
        <4>2. QED  BY <3>2, <4>1 DEF Headroom
      <3>4. QED  BY <3>3 DEF Slots
    <2>2. CASE slot = "Shared"
      <3>1. Pooled(g, s) = {p} /\ Taken(g, s, c, "Shared") = {p}
        BY <1>8, <1>15, <2>2 DEF Pooled, Taken
      <3>2. sharedUsed[s] + 1 <= Shared  BY <1>6, <1>16, <3>1 DEF Grants
      <3>3. c # "Control"  BY <1>6, <3>1 DEF Grants
      <3>4. c \in SharedMembers  BY <3>3 DEF Class, SharedMembers
      <3>5. sharedUsed[s] < Shared
        <4>1. sharedUsed[s] \in Nat /\ Shared \in Nat  BY <1>1, BudgetAssumption DEF AccountTypes
        <4>2. QED  BY <3>2, <4>1
      <3>6. QED  BY <3>4, <3>5 DEF Slots
    <2>3. QED  BY <2>1, <2>2
  <1>19. QED  BY <1>9, <1>10, <1>11, <1>12, <1>13, <1>14, <1>17, <1>18

\* A permit that goes back is the task's own.
LEMMA GivesBackHold ==
    ASSUME HoldInv, TaskTypes, LedgerInv, GivesBack
    PROVE  HoldInv'
  <1> USE DEF HoldInv
  <1>0. /\ AccountTypes /\ AccountsMatchPermits /\ QueuesInOrder /\ PermitWaiters
        /\ NoWaiter \notin Waiter
    BY BudgetAssumption DEF LedgerInv, AccountsInv, QueuesInv
  <1>1. PICK t \in Waiter : DropGuard(t) \/ GiveBack(t)  BY DEF GivesBack
  <1>2. /\ queue' = queue \/ \E gone : Leave(gone)
        /\ attached' = attached
    BY GivesBackLedger
  <1>3. Queued' \subseteq Queued
    <2>1. \A s \in Service, c \in Class : WaitersIn(s, c)' \subseteq WaitersIn(s, c)
      BY <1>0, <1>2, SameQueues, LeaveMoves
    <2>2. QED  BY <2>1, FewerWaiters
  <1>4. CASE DropGuard(t)
    <2>1. /\ Goes(t, "Notify") /\ hold' = hold /\ stage[t] = "Dropping" /\ Leave({t})
          /\ IF GrantedTo(t) = {} THEN permits' = permits ELSE \E p \in GrantedTo(t) : Free(p)
      BY <1>4 DEF DropGuard, accounts
    <2>2. stage'[t] = "Notify" /\ \A u \in Waiter : u # t => stage'[u] = stage[u]
      BY <2>1 DEF Goes, TaskTypes
    <2>3. t \notin Queued'  BY <1>0, <2>1, LeaveGone
    <2>4. /\ InHand' = InHand \ GrantedTo(t)
          /\ \A q \in InHand' : permits'[q] = permits[q]
      <3>1. CASE GrantedTo(t) = {}  BY <2>1, <3>1, SamePermits
      <3>2. CASE GrantedTo(t) # {}
        <4>1. PICK p \in GrantedTo(t) : Free(p)  BY <2>1, <3>2
        <4>2. p \in InHand /\ GrantedTo(t) = {p}  BY <1>0, <4>1, GrantedOnce DEF GrantedTo
        <4>3. InHand' = InHand \ {p} /\ \A q \in InHand' : permits'[q] = permits[q]
          BY <1>0, <1>2, <4>1, <4>2, ReleaseTakesBack
        <4>4. QED  BY <4>2, <4>3
      <3>3. QED  BY <3>1, <3>2
    <2>5. hold[t] = {}  BY <2>1 DEF TaskPlace, Keeping
    <2>6. /\ GrantedTo(t)' = {}
          /\ \A u \in Waiter : u # t => GrantedTo(u)' = GrantedTo(u)
      BY <2>4 DEF GrantedTo
    <2>7. \A u \in Waiter : \A p \in hold[u] : p \notin GrantedTo(t)
      BY <1>0, <2>5 DEF HoldsInHand, GrantedTo
    <2>8. HoldsInHand'  BY <2>1, <2>4, <2>7 DEF HoldsInHand
    <2>9. OneEach' /\ Accounted'  BY <2>1, <2>4 DEF OneEach, Accounted
    <2>10. \A u \in Waiter : TaskPlace(u)'
      BY <1>3, <2>1, <2>2, <2>3, <2>5, <2>6 DEF TaskPlace
    <2>11. QED  BY <2>8, <2>9, <2>10
  <1>5. CASE GiveBack(t)
    <2>1. PICK p \in hold[t] : Free(p) /\ hold' = [hold EXCEPT ![t] = @ \ {p}]
      BY <1>5 DEF GiveBack
    <2>2. Goes(t, "Advance") /\ stage[t] = "Holding"  BY <1>5 DEF GiveBack
    <2>3. stage'[t] = "Advance" /\ \A u \in Waiter : u # t => stage'[u] = stage[u]
      BY <2>2 DEF Goes, TaskTypes
    <2>4. hold'[t] = hold[t] \ {p} /\ \A u \in Waiter : u # t => hold'[u] = hold[u]
      BY <2>1 DEF TaskTypes
    <2>5. p \in InHand  BY <2>1 DEF HoldsInHand
    <2>6. InHand' = InHand \ {p} /\ \A q \in InHand' : permits'[q] = permits[q]
      BY <1>0, <1>2, <2>1, <2>5, ReleaseTakesBack
    <2>7. \A u \in Waiter : GrantedTo(u)' = GrantedTo(u) \ {p}  BY <2>6 DEF GrantedTo
    <2>8. \A u \in Waiter : u # t => p \notin hold[u] /\ p \notin GrantedTo(u)
      BY <1>0, <2>1 DEF OneEach, HoldsInHand, GrantedTo
    <2>9. t \notin Queued /\ GrantedTo(t) \subseteq hold[t]
      BY <2>2 DEF TaskPlace, Waiting
    <2>10. HoldsInHand'  BY <2>4, <2>6, <2>8 DEF HoldsInHand
    <2>11. OneEach'  BY <2>4 DEF OneEach
    <2>12. Accounted'  BY <2>4, <2>6 DEF Accounted
    <2>13. \A u \in Waiter : TaskPlace(u)'
      BY <1>3, <2>2, <2>3, <2>4, <2>7, <2>8, <2>9 DEF TaskPlace, Keeping
    <2>14. QED  BY <2>10, <2>11, <2>12, <2>13
  <1>6. QED  BY <1>1, <1>4, <1>5

LEMMA HoldKept ==
    ASSUME LedgerInv, TaskTypes, HoldInv, [Next]_vars
    PROVE  HoldInv'
  <1>0. OtherTypes /\ QueuesInOrder  BY DEF LedgerInv, QueuesInv
  <1>1. ~Joins => Queued' \subseteq Queued  BY OnlyJoinsCome, FewerWaiters
  <1>2. ASSUME UNCHANGED <<stage, hold, permits>>, ~Joins PROVE HoldInv'
    BY <1>1, <1>2, HoldSame
  <1>3. CASE UNCHANGED vars
    <2>1. UNCHANGED <<stage, hold, permits>> /\ Queued' = Queued  BY <1>3, SameQueues DEF vars
    <2>2. QED  BY <2>1, HoldSame
  <1>4. CASE MovesOn  BY <1>4, MovesOnHold
  <1>5. CASE Notes
    <2>1. queue' = queue /\ permits' = permits /\ Queued' = Queued
      BY <1>0, <1>5, NotesLedger, SameQueues DEF RestStep
    <2>2. PICK t \in Waiter :
            \/ Overdue(t)
            \/ \E claim \in Claim : AskBusy(t, claim) \/ AskDenied(t, claim) \/ AskManyRefused(t, claim)
      BY <1>5 DEF Notes
    <2>3. UNCHANGED <<stage, hold>> \/ (hold' = hold /\ stage[t] = "Out" /\ Goes(t, "Refused"))
      BY <2>2 DEF Overdue, AskBusy, AskDenied, AskManyRefused, taskVars
    <2>4. CASE UNCHANGED <<stage, hold>>  BY <2>1, <2>4, HoldSame
    <2>5. CASE hold' = hold /\ stage[t] = "Out" /\ Goes(t, "Refused")
      <3>1. TaskPlace(t)  BY DEF HoldInv
      <3>2. hold[t] = {} /\ t \notin Queued /\ GrantedTo(t) \subseteq hold[t]
        BY <2>5, <3>1 DEF TaskPlace, Keeping, Waiting
      <3>3. QED  BY <2>1, <2>5, <3>2, HoldGoes DEF Waiting
    <2>6. QED  BY <2>3, <2>4, <2>5
  <1>6. CASE Gets  BY <1>6, GetsHold
  <1>7. CASE PumpBegins
    <2>1. PICK t \in Waiter : Settle(t) \/ Advance(t) \/ \E claim \in Claim : Probe(t, claim)
      BY <1>7 DEF PumpBegins
    <2>2. permits' = permits /\ hold' = hold /\ \E gone : Leave(gone)
      BY <2>1 DEF Settle, Advance, Probe, PumpStart, accounts
    <2>3. Queued' \subseteq Queued  BY <1>0, <2>2, LeaveMoves, FewerWaiters
    <2>4. TaskPlace(t)  BY DEF HoldInv
    <2>5. CASE Settle(t)
      <3>1. Goes(t, "Settling") /\ stage[t] = "Check"  BY <2>5 DEF Settle
      <3>2. hold[t] = {}  BY <2>4, <3>1 DEF TaskPlace, Keeping
      <3>3. QED  BY <2>2, <2>3, <3>1, <3>2, HoldGoes DEF Waiting
    <2>6. CASE Advance(t)
      <3>1. Goes(t, "Advancing") /\ stage[t] = "Advance"  BY <2>6 DEF Advance
      <3>2. t \notin Queued /\ GrantedTo(t) \subseteq hold[t]
        BY <2>4, <3>1 DEF TaskPlace, Waiting
      <3>3. QED  BY <2>2, <2>3, <3>1, <3>2, HoldGoes DEF Keeping
    <2>7. ASSUME NEW claim \in Claim, Probe(t, claim) PROVE HoldInv'
      <3>1. Goes(t, "Trying") /\ stage[t] = "Out"  BY <2>7 DEF Probe
      <3>2. hold[t] = {} /\ t \notin Queued /\ GrantedTo(t) \subseteq hold[t]
        BY <2>4, <3>1 DEF TaskPlace, Keeping, Waiting
      <3>3. QED  BY <2>2, <2>3, <3>1, <3>2, HoldGoes
    <2>8. QED  BY <2>1, <2>5, <2>6, <2>7
  <1>8. CASE Joins
    <2>1. PICK t \in Waiter : Join(t)  BY <1>8 DEF Joins
    <2>2. /\ permits' = permits /\ hold' = hold
          /\ Goes(t, "Listening") /\ stage[t] = "Refused"
      BY <2>1 DEF Join, Enqueue, accounts
    <2>3. Queued' \subseteq Queued \cup {t}  BY <2>1, JoinComes
    <2>4. hold[t] = {}  BY <2>2 DEF HoldInv, TaskPlace, Keeping
    <2>5. QED  BY <2>2, <2>3, <2>4, HoldGoes DEF Waiting
  <1>9. CASE GivesBack  BY <1>9, GivesBackHold
  <1>10. CASE PumpOn
    <2>1. UNCHANGED <<stage, hold>>  BY <1>10 DEF PumpOn
    <2>2. CASE PumpGrant
      <3>1. PICK p \in Permit, w \in Waiter :
              /\ p \notin InHand /\ InHand' = InHand \cup {p}
              /\ permits'[p].waiter = w
              /\ \A q \in InHand : permits'[q] = permits[q]
              /\ w \in Queued /\ Queued' \subseteq Queued
        BY <2>2, GrantIs
      <3>2. {p} \in SUBSET Permit /\ {p} \cap InHand = {} /\ \A q \in {p} : permits'[q].waiter = w
        BY <3>1
      <3>3. QED  BY <2>1, <3>1, <3>2, HoldGrants
    <2>3. CASE PumpNext(pump.service)
      <3>1. permits' = permits /\ Queued' = Queued  BY <2>3, SameQueues DEF PumpNext, accounts
      <3>2. QED  BY <2>1, <3>1, HoldSame
    <2>4. QED  BY <1>0, <1>10, <2>2, <2>3, PumpOnIs
  <1>11. CASE Outside
    <2>1. UNCHANGED <<stage, hold, permits, queue>>
      BY <1>11 DEF Outside, Attach, Detach, DrainConnection, DrainOrganization, DrainNode, accounts
    <2>2. QED  BY <2>1, SameQueues, HoldSame
  <1>12. QED
    BY <1>3, <1>4, <1>5, <1>6, <1>7, <1>8, <1>9, <1>10, <1>11, Steps

--------------------------------------------------------------------------------
(* The pump.                                                                    *)

\* Nobody at service s waits for a slot that is free.
Left(s) == Physical(s) < PhysicalCap => \A c \in Class : queue[s][c] # <<>> => Slots(s, c) = {}

\* A pump has left behind what it has visited.
PumpInv ==
    owner # NoWaiter =>
       \A s \in known \ draining : s \notin pump.todo \cup {pump.service} => Left(s)

\* A grant takes slots and connections, and frees none.
LEMMA GrantsLess ==
    ASSUME AccountTypes, NEW g, Grants(g), NEW s \in Service
    PROVE  /\ Physical(s)' < PhysicalCap => Physical(s) < PhysicalCap
           /\ \A c \in Class : Slots(s, c) = {} => Slots(s, c)' = {}
  <1>1. AccountTypes'  BY GrantsAdd
  <1>2. PermitsOf(s)' = PermitsOf(s) \cup Here(g, s)  BY GrantsAdd
  <1>3. DOMAIN g \in SUBSET Permit  BY DEF Grants
  <1>4. /\ IsFiniteSet(PermitsOf(s)') /\ Cardinality(PermitsOf(s)') \in Nat
        /\ Cardinality(PermitsOf(s)) \in Nat /\ Cardinality(PermitsOf(s)) <= Cardinality(PermitsOf(s)')
    <2>1. PermitsOf(s) \cup Here(g, s) \in SUBSET Permit
      BY <1>3 DEF PermitsOf, InHand, Here
    <2>2. IsFiniteSet(PermitsOf(s) \cup Here(g, s))  BY <2>1, PermitSetsFinite
    <2>3. PermitsOf(s) \subseteq PermitsOf(s) \cup Here(g, s)  OBVIOUS
    <2>4. QED  BY <1>2, <2>2, <2>3, FS_Subset, FS_CardinalityType
  <1>5. Physical(s)' < PhysicalCap => Physical(s) < PhysicalCap
    <2>1. attached'[s] = attached[s] /\ attached[s] \in Nat  BY DEF Grants, AccountTypes
    <2>2. PhysicalCap \in Nat  BY BudgetAssumption
    <2>3. Physical(s)' = attached'[s] + Cardinality(PermitsOf(s)')  BY DEF Physical
    <2>4. Physical(s) = attached[s] + Cardinality(PermitsOf(s))  BY DEF Physical
    <2>5. QED  BY <1>4, <2>1, <2>2, <2>3, <2>4
  <1>6. ASSUME NEW c \in Class, Slots(s, c) = {} PROVE Slots(s, c)' = {}
    <2>1. /\ reservedUse'[s][c] = reservedUse[s][c] + Cardinality(Taken(g, s, c, "Reserved"))
          /\ sharedUsed'[s] = sharedUsed[s] + Cardinality(Pooled(g, s))
      BY GrantsAdd
    <2>2. Cardinality(Taken(g, s, c, "Reserved")) \in Nat /\ Cardinality(Pooled(g, s)) \in Nat
      <3>1. /\ Taken(g, s, c, "Reserved") \in SUBSET Permit
            /\ Pooled(g, s) \in SUBSET Permit
        BY <1>3 DEF Taken, Pooled, Here
      <3>2. QED  BY <3>1, PermitSetsFinite
    <2>3. /\ reservedUse[s][c] \in Nat /\ sharedUsed[s] \in Nat
          /\ Reserved[c] \in Nat /\ Shared \in Nat
      BY BudgetAssumption DEF AccountTypes
    <2>4. ~(Headroom(s, c) > 0) /\ ~(c \in SharedMembers /\ sharedUsed[s] < Shared)
      BY <1>6 DEF Slots
    <2>5. ~(Headroom(s, c)' > 0)
      <3>1. Headroom(s, c) = Reserved[c] - reservedUse[s][c]  BY DEF Headroom
      <3>2. Headroom(s, c)' = Reserved[c] - reservedUse'[s][c]  BY DEF Headroom
      <3>3. QED  BY <2>1, <2>2, <2>3, <2>4, <3>1, <3>2
    <2>6. ~(c \in SharedMembers /\ sharedUsed'[s] < Shared)  BY <2>1, <2>2, <2>3, <2>4
    <2>7. QED  BY <2>5, <2>6 DEF Slots
  <1>7. QED  BY <1>5, <1>6

LEMMA PumpGrantLess ==
    ASSUME LedgerInv, PumpGrant
    PROVE  /\ \A s \in Service :
                 /\ Physical(s)' < PhysicalCap => Physical(s) < PhysicalCap
                 /\ \A c \in Class : Slots(s, c) = {} => Slots(s, c)' = {}
           /\ \A s \in Service \ {pump.service} : queue'[s] = queue[s]
           /\ UNCHANGED <<known, draining>>
  <1>1. AccountTypes /\ QueuesInOrder /\ credit \in [Service -> [SharedMembers -> Int]]
    BY DEF LedgerInv, AccountsInv, QueuesInv, OtherTypes
  <1>2. ServeStep  BY <1>1, PumpServes
  <1>3. PICK g : Grants(g)  BY <1>2 DEF ServeStep
  <1>4. PICK s \in Service : PumpReserved(s) \/ PumpShared(s)  BY DEF PumpGrant
  <1>5. pump.service = s /\ \E c : queue' = [queue EXCEPT ![s][c] = Popped(@)]
    <2>1. CASE PumpReserved(s)
      <3>1. PICK i \in 1..4 : GrantHead(s, ClassOrder[i], "Reserved")  BY <2>1 DEF PumpReserved
      <3>2. queue' = [queue EXCEPT ![s][ClassOrder[i]] = Popped(@)]  BY <3>1 DEF GrantHead
      <3>3. QED  BY <2>1, <3>2 DEF PumpReserved, Serves
    <2>2. CASE PumpShared(s)
      <3>1. PICK c : c = Chosen(credit[s], Active(s))  OBVIOUS
      <3>2. queue' = [queue EXCEPT ![s][c] = Popped(@)]  BY <2>2, <3>1 DEF PumpShared, GrantHead
      <3>3. QED  BY <2>2, <3>2 DEF PumpShared, Serves
    <2>3. QED  BY <1>4, <2>1, <2>2
  <1>6. \A u \in Service \ {s} : queue'[u] = queue[u]  BY <1>1, <1>5 DEF QueuesInOrder
  <1>7. UNCHANGED <<known, draining>>  BY <1>4 DEF PumpReserved, PumpShared, drains
  <1>8. QED  BY <1>1, <1>3, <1>5, <1>6, <1>7, GrantsLess

\* What the ledger offers depends on the ledger alone.
LEMMA SameLedger ==
    ASSUME UNCHANGED <<permits, reservedUse, sharedUsed, attached>>
    PROVE  \A s, c : Physical(s)' = Physical(s) /\ Slots(s, c)' = Slots(s, c)
  BY DEF Physical, PermitsOf, InHand, Slots, Headroom

LEMMA PumpKept ==
    ASSUME LedgerInv, TaskTypes, PumpInv, [Next]_vars
    PROVE  PumpInv'
  <1> SUFFICES ASSUME owner' # NoWaiter,
                      NEW s \in known' \ draining', s \notin pump'.todo \cup {pump'.service}
               PROVE  Left(s)'
    BY DEF PumpInv
  <1>0. OtherTypes  BY DEF LedgerInv
  <1>1. ASSUME owner' = owner, UNCHANGED <<known, draining, pump, permits, reservedUse, sharedUsed,
                                           attached, queue>>
        PROVE  Left(s)'
    BY <1>1, SameLedger DEF PumpInv, Left
  <1>2. CASE UNCHANGED vars  BY <1>2, <1>1 DEF vars
  <1>3. CASE MovesOn
    <2>1. UNCHANGED ledgerVars  BY <1>3, MovesOnLedger
    <2>2. owner' = owner
      BY <1>3 DEF MovesOn, Ring, ProbeDone, TurnedAway, Register, SettleLate, Settled, Announce, Wake,
                  Abandon, Advanced, Notify
    <2>3. QED  BY <2>1, <2>2, <1>1 DEF ledgerVars
  <1>4. CASE Notes
    <2>1. PICK t \in Waiter :
            \/ Overdue(t)
            \/ \E claim \in Claim : AskBusy(t, claim) \/ AskDenied(t, claim) \/ AskManyRefused(t, claim)
      BY <1>4 DEF Notes
    <2>2. Overdue(t)
      BY <2>1 DEF AskBusy, AskDenied, AskManyRefused, taskVars, MutexFree
    <2>3. QED  BY <1>1, <2>2 DEF Overdue, taskVars, accounts, drains
  <1>5. CASE Gets  BY <1>5 DEF Gets, AskGranted, AskMany, MutexFree
  <1>6. CASE PumpBegins
    <2>1. /\ \E gone : PumpStart(gone)
      BY <1>6 DEF PumpBegins, Settle, Advance, Probe
    <2>2. Visit(known) /\ known' = known /\ known \in SUBSET Service
      BY <1>0, <2>1 DEF PumpStart, OtherTypes
    <2>3. QED  BY <2>2, VisitIs
  <1>7. CASE Joins \/ GivesBack \/ Outside
    BY <1>7 DEF Joins, Join, GivesBack, DropGuard, GiveBack, Outside, MutexFree
  <1>8. CASE PumpOn
    <2>1. owner' = owner  BY <1>8 DEF PumpOn
    <2>2. CASE PumpGrant /\ pump'.service = pump.service /\ pump'.todo = pump.todo
      <3>1. s \in Service /\ s # pump.service /\ queue'[s] = queue[s] /\ s \in known \ draining
        BY <1>0, <2>2, PumpGrantLess DEF OtherTypes
      <3>2. Left(s)  BY <2>1, <2>2, <3>1 DEF PumpInv
      <3>3. /\ Physical(s)' < PhysicalCap => Physical(s) < PhysicalCap
            /\ \A c \in Class : Slots(s, c) = {} => Slots(s, c)' = {}
        BY <2>2, <3>1, PumpGrantLess
      <3>4. QED  BY <3>1, <3>2, <3>3 DEF Left
    <2>3. CASE PumpNext(pump.service)
      <3>1. /\ UNCHANGED <<known, draining, permits, reservedUse, sharedUsed, attached, queue>>
            /\ Visit(pump.todo) /\ pump.todo \in SUBSET Service
        BY <1>0, <2>3 DEF PumpNext, accounts, drains, OtherTypes
      <3>2. pump.todo \subseteq pump'.todo \cup {pump'.service}  BY <3>1, VisitIs
      <3>3. s \in Service /\ s \notin draining /\ s \in known /\ s \notin pump.todo
        BY <1>0, <3>1, <3>2 DEF OtherTypes
      <3>4. Left(s)
        <4>1. CASE s = pump.service
          BY <2>3, <3>3, <4>1, PumpLeaves DEF Left, LedgerInv, AccountsInv
        <4>2. CASE s # pump.service  BY <2>1, <3>3, <4>2 DEF PumpInv
        <4>3. QED  BY <4>1, <4>2
      <3>5. QED  BY <3>1, <3>4, SameLedger DEF Left
    <2>4. QED  BY <1>0, <1>8, <2>2, <2>3, PumpOnIs
  <1>9. QED
    BY <1>2, <1>3, <1>4, <1>5, <1>6, <1>7, <1>8, Steps

--------------------------------------------------------------------------------
(* Wakeups.                                                                     *)

\* A task that will notify the others before it sleeps or leaves.
Callers == {"Late", "Announce", "Dropping", "Advance", "Advancing", "Notify"}

Settles == served /\ owner # NoWaiter /\ stage[owner] = "Settling"

Calling == alarm \/ (\E t \in Waiter : stage[t] \in Callers) \/ Settles

\* Asleep, and nothing on its way that would wake the task.
Quietly(t) == stage[t] = "Asleep" /\ t \notin woken \cup late

\* The ledger has nothing for t.
NothingFor(t) ==
    /\ GrantedTo(t) = {}
    /\ \A s \in known \ draining, c \in Class : \A e \in WaitersIn(s, c) :
          e.id = t /\ Physical(s) < PhysicalCap => Slots(s, c) = {}

Calm == \A t \in Waiter : Quietly(t) => NothingFor(t)

\* Who sleeps unwoken has missed nothing, unless a call is still to come.
WakeInv == Calling \/ Calm

LEMMA CalmMoves ==
    ASSUME Calm, KnownInv, OtherTypes', draining \subseteq draining',
           \A t \in Waiter : Quietly(t)' => Quietly(t) /\ (GrantedTo(t) = {} => GrantedTo(t)' = {}),
           \A s \in Service, c \in Class : \A e \in WaitersIn(s, c)' :
              e \in WaitersIn(s, c) \/ ~Quietly(e.id)',
           \A s \in Service :
              /\ Physical(s)' < PhysicalCap => Physical(s) < PhysicalCap
              /\ \A c \in Class : Slots(s, c) = {} => Slots(s, c)' = {}
    PROVE  Calm'
  <1> SUFFICES ASSUME NEW t \in Waiter, Quietly(t)'
               PROVE  NothingFor(t)'
    BY DEF Calm
  <1>1. NothingFor(t) /\ GrantedTo(t)' = {}  BY DEF Calm, NothingFor
  <1>2. ASSUME NEW s \in known' \ draining', NEW c \in Class, NEW e \in WaitersIn(s, c)',
               e.id = t, Physical(s)' < PhysicalCap
        PROVE  Slots(s, c)' = {}
    <2>1. s \in Service /\ s \notin draining  BY <1>2 DEF OtherTypes
    <2>2. e \in WaitersIn(s, c)  BY <1>2, <2>1
    <2>3. s \in known  BY <2>1, <2>2 DEF KnownInv
    <2>4. Physical(s) < PhysicalCap  BY <1>2, <2>1
    <2>5. Slots(s, c) = {}  BY <1>1, <1>2, <2>1, <2>2, <2>3, <2>4 DEF NothingFor
    <2>6. QED  BY <2>1, <2>5
  <1>3. QED  BY <1>1, <1>2 DEF NothingFor

\* A task that moves on and leaves the ledger as it is, or queues shorter.
LEMMA CalmGoes ==
    ASSUME Calm, KnownInv, OtherTypes', TaskTypes,
           UNCHANGED <<permits, reservedUse, sharedUsed, attached, draining>>,
           \A s \in Service, c \in Class : \A e \in WaitersIn(s, c)' :
              e \in WaitersIn(s, c) \/ ~Quietly(e.id)',
           woken \cup late \subseteq woken' \cup late',
           NEW t \in Waiter, NEW to, Goes(t, to), to # "Asleep"
    PROVE  Calm'
  <1>1. \A s, c : Physical(s)' = Physical(s) /\ Slots(s, c)' = Slots(s, c)  BY SameLedger
  <1>2. \A u : GrantedTo(u)' = GrantedTo(u)  BY SamePermits
  <1>3. stage'[t] = to /\ \A u \in Waiter : u # t => stage'[u] = stage[u]  BY DEF Goes, TaskTypes
  <1>4. \A u \in Waiter : Quietly(u)' => Quietly(u)
    <2> SUFFICES ASSUME NEW u \in Waiter, Quietly(u)' PROVE Quietly(u)  OBVIOUS
    <2>1. stage'[u] = "Asleep" /\ u \notin woken' \cup late'  BY DEF Quietly
    <2>2. u # t  BY <1>3, <2>1
    <2>3. QED  BY <1>3, <2>1, <2>2 DEF Quietly
  <1>5. QED  BY <1>1, <1>2, <1>4, CalmMoves

LEMMA AllWoken ==
    ASSUME \A t \in Waiter : stage'[t] = "Asleep" => t \in woken'
    PROVE  Calm'
  BY DEF Calm, Quietly

LEMMA CallsOn ==
    ASSUME TaskTypes, Calling, alarm' = alarm, NEW t \in Waiter, NEW to, Goes(t, to),
           stage[t] \notin Callers \/ to \in Callers,
           ~Settles \/ (UNCHANGED <<owner, served>> /\ stage[t] # "Settling")
    PROVE  Calling'
  <1>1. stage'[t] = to /\ \A u \in Waiter : u # t => stage'[u] = stage[u]  BY DEF Goes, TaskTypes
  <1>2. CASE alarm  BY <1>2 DEF Calling
  <1>3. CASE \E u \in Waiter : stage[u] \in Callers
    <2>1. PICK u \in Waiter : stage[u] \in Callers  BY <1>3
    <2>2. stage'[u] \in Callers  BY <1>1, <2>1
    <2>3. QED  BY <2>2 DEF Calling
  <1>4. CASE Settles
    <2>1. owner \in Waiter /\ owner # t  BY <1>4 DEF Settles, TaskTypes
    <2>2. Settles'  BY <1>1, <1>4, <2>1 DEF Settles
    <2>3. QED  BY <2>2 DEF Calling
  <1>5. QED  BY <1>2, <1>3, <1>4 DEF Calling

LEMMA CallsNow ==
    ASSUME TaskTypes, NEW t \in Waiter, NEW to \in Callers, Goes(t, to)
    PROVE  Calling'
  <1>1. stage'[t] = to  BY DEF Goes, TaskTypes
  <1>2. QED  BY <1>1 DEF Calling

\* A pump that ends with nobody served has nothing for the task it ran for.
LEMMA SettledFindsNothing ==
    ASSUME LedgerInv, PumpInv, MutexInv, NEW t \in Waiter, Settled(t), GrantedTo(t) = {}
    PROVE  NothingFor(t)
  <1> SUFFICES ASSUME NEW s \in known \ draining, NEW c \in Class, NEW e \in WaitersIn(s, c),
                      Physical(s) < PhysicalCap
               PROVE  Slots(s, c) = {}
    BY DEF NothingFor
  <1>1. owner = t /\ Unlocked  BY DEF Settled
  <1>2. s \in Service /\ pump.todo = {} /\ pump.service = NoService
    BY <1>1 DEF MutexInv, Unlocked, LedgerInv, OtherTypes
  <1>3. Left(s)  BY <1>1, <1>2, BudgetAssumption DEF PumpInv
  <1>4. queue[s][c] # <<>>  BY DEF WaitersIn
  <1>5. QED  BY <1>3, <1>4 DEF Left

LEMMA SettledWake ==
    ASSUME LedgerInv, TaskTypes, PumpInv, MutexInv, WakeInv, NEW t \in Waiter, Settled(t)
    PROVE  WakeInv'
  <1>1. PICK to : /\ to = IF served THEN "Announce"
                          ELSE IF GrantedTo(t) = {} THEN "Asleep" ELSE "Holding"
                  /\ Goes(t, to)
    BY DEF Settled
  <1>2. /\ UNCHANGED ledgerVars /\ UNCHANGED <<woken, alarm>> /\ stage[t] = "Settling"
    BY DEF Settled, ledger, ledgerVars
  <1>3. CASE served
    <2>1. to \in Callers  BY <1>1, <1>3 DEF Callers
    <2>2. QED  BY <1>1, <2>1, CallsNow DEF WakeInv
  <1>4. CASE ~served /\ Calling
    <2>1. ~Settles /\ stage[t] \notin Callers  BY <1>2, <1>4 DEF Settles, Callers
    <2>2. Calling'  BY <1>1, <1>2, <1>4, <2>1, CallsOn
    <2>3. QED  BY <2>2 DEF WakeInv
  <1>5. CASE ~served /\ Calm
    <2>1. stage'[t] = to /\ \A u \in Waiter : u # t => stage'[u] = stage[u]
      BY <1>1 DEF Goes, TaskTypes
    <2>2. \A u \in Waiter : NothingFor(u)' = NothingFor(u)
      <3>1. \A s, c : Physical(s)' = Physical(s) /\ Slots(s, c)' = Slots(s, c)
        BY <1>2, SameLedger DEF ledgerVars
      <3>2. \A u : GrantedTo(u)' = GrantedTo(u)  BY <1>2, SamePermits DEF ledgerVars
      <3>3. \A s, c : WaitersIn(s, c)' = WaitersIn(s, c)  BY <1>2, SameQueues DEF ledgerVars
      <3>4. known' = known /\ draining' = draining  BY <1>2 DEF ledgerVars
      <3>5. QED  BY <3>1, <3>2, <3>3, <3>4 DEF NothingFor
    <2>3. \A u \in Waiter : u # t /\ Quietly(u)' => Quietly(u)
      BY <1>2, <2>1 DEF Quietly, ledgerVars
    <2>4. Quietly(t)' => GrantedTo(t) = {}
      <3>1. Quietly(t)' => to = "Asleep"  BY <2>1 DEF Quietly
      <3>2. QED  BY <1>1, <3>1
    <2>5. GrantedTo(t) = {} => NothingFor(t)  BY SettledFindsNothing
    <2>6. Calm'  BY <1>5, <2>2, <2>3, <2>4, <2>5 DEF Calm
    <2>7. QED  BY <2>6 DEF WakeInv
  <1>6. QED  BY <1>3, <1>4, <1>5 DEF WakeInv

LEMMA MovesOnWake ==
    ASSUME LedgerInv, LedgerInv', TaskTypes, PumpInv, MutexInv, KnownInv, WakeInv, MovesOn
    PROVE  WakeInv'
  <1>0. UNCHANGED ledgerVars  BY MovesOnLedger
  <1>1. /\ OtherTypes' /\ UNCHANGED <<permits, reservedUse, sharedUsed, attached, draining, late>>
        /\ \A s \in Service, c \in Class : WaitersIn(s, c)' = WaitersIn(s, c)
    BY <1>0, SameQueues DEF LedgerInv, ledgerVars
  <1>2. CASE Ring
    <2>1. stage' = stage /\ woken' = woken \cup Registered  BY <1>2 DEF Ring
    <2>2. \A t \in Waiter : stage'[t] = "Asleep" => t \in woken'  BY <2>1 DEF Registered
    <2>3. QED  BY <2>2, AllWoken DEF WakeInv
  <1>3. ASSUME NEW t \in Waiter, ProbeDone(t) \/ TurnedAway(t) \/ Register(t) \/ Wake(t)
        PROVE  WakeInv'
    <2>1. PICK to \in {"Out", "Late", "Check", "Listening"} : Goes(t, to)
      BY <1>3 DEF ProbeDone, TurnedAway, Register, Wake
    <2>2. /\ alarm' = alarm /\ stage[t] \notin Callers /\ stage[t] # "Settling"
      BY <1>3 DEF ProbeDone, TurnedAway, Register, Wake, Callers
    <2>3. ~Settles \/ UNCHANGED <<owner, served>>
      BY <1>3 DEF ProbeDone, TurnedAway, Register, Wake, Settles
    <2>4. Calling => Calling'  BY <2>1, <2>2, <2>3, CallsOn
    <2>5. stage'[t] = to /\ \A u \in Waiter : u # t => stage'[u] = stage[u]
      BY <2>1 DEF Goes, TaskTypes
    <2>6. \A u \in Waiter : Quietly(u)' => Quietly(u)
      <3> SUFFICES ASSUME NEW u \in Waiter, Quietly(u)' PROVE Quietly(u)  OBVIOUS
      <3>1. u # t /\ stage[u] = "Asleep"  BY <2>1, <2>5 DEF Quietly
      <3>2. u \notin woken' \cup late'  BY DEF Quietly
      <3>3. woken' = woken \/ woken' = woken \ {t}
        BY <1>3 DEF ProbeDone, TurnedAway, Register, Wake
      <3>4. QED  BY <1>1, <3>1, <3>2, <3>3 DEF Quietly
    <2>7. Calm => Calm'
      <3>1. \A s, c : Physical(s)' = Physical(s) /\ Slots(s, c)' = Slots(s, c)  BY <1>1, SameLedger
      <3>2. \A u : GrantedTo(u)' = GrantedTo(u)  BY <1>1, SamePermits
      <3>3. QED  BY <1>1, <2>6, <3>1, <3>2, CalmMoves
    <2>8. QED  BY <2>4, <2>7 DEF WakeInv
  <1>4. ASSUME NEW t \in Waiter, SettleLate(t) \/ Abandon(t) \/ Advanced(t)
        PROVE  WakeInv'
    <2>1. PICK to \in {"Dropping", "Notify"} : Goes(t, to)
      BY <1>4 DEF SettleLate, Abandon, Advanced
    <2>2. QED  BY <2>1, CallsNow DEF WakeInv, Callers
  <1>5. ASSUME NEW t \in Waiter, Announce(t) \/ Notify(t) PROVE WakeInv'
    <2>1. woken' = woken \cup Registered  BY <1>5 DEF Announce, Notify
    <2>2. PICK to : /\ Goes(t, to)
                    /\ to = "Asleep" => stage[t] = "Announce"
      BY <1>5 DEF Announce, Notify
    <2>3. stage'[t] = to /\ \A u \in Waiter : u # t => stage'[u] = stage[u]
      BY <2>2 DEF Goes, TaskTypes
    <2>4. \A u \in Waiter : stage'[u] = "Asleep" => u \in woken'
      BY <2>1, <2>2, <2>3 DEF Registered
    <2>5. QED  BY <2>4, AllWoken DEF WakeInv
  <1>6. QED  BY <1>2, <1>3, <1>4, <1>5, SettledWake DEF MovesOn

\* A grant of the pump: the task it runs for will announce it, or nobody who sleeps
\* has missed it.
LEMMA GrantWake ==
    ASSUME LedgerInv, LedgerInv', TaskTypes, HoldsInHand, MutexInv, KnownInv, WakeInv, PumpOn, PumpGrant
    PROVE  WakeInv'
  <1>0. /\ owner # NoWaiter /\ UNCHANGED <<stage, woken, owner, alarm>>
        /\ OtherTypes /\ OtherTypes' /\ ~Unlocked
    BY PumpOnIs DEF PumpOn, LedgerInv
  <1>1. served' = TRUE
    <2>1. ~\E s \in Service : PumpNext(s) /\ PumpGrant
      <3> SUFFICES ASSUME NEW s \in Service, PumpNext(s) PROVE ~PumpGrant  OBVIOUS
      <3>1. permits' = permits  BY DEF PumpNext, accounts
      <3>2. InHand' = InHand  BY <3>1, SamePermits
      <3>3. QED  BY <3>2, GrantIs
    <2>2. QED  BY <2>1 DEF PumpOn
  <1>2. CASE Calling
    <2>1. Calling'  BY <1>0, <1>1, <1>2 DEF Calling, Settles
    <2>2. QED  BY <2>1 DEF WakeInv
  <1>3. CASE Calm /\ ~Calling
    <2>1. PICK s \in Service, c \in Class, p \in Permit, w \in Waiter :
              /\ p \notin InHand /\ InHand' = InHand \cup {p}
              /\ permits'[p].waiter = w
              /\ \A q \in InHand : permits'[q] = permits[q]
              /\ \E e \in WaitersIn(s, c) : e.id = w
              /\ s \notin draining /\ Physical(s) < PhysicalCap /\ Slots(s, c) # {}
      BY GrantIs
    <2>2. PICK e \in WaitersIn(s, c) : e.id = w  BY <2>1
    <2>3. s \in known  BY <2>2 DEF KnownInv
    <2>4. ~NothingFor(w)  BY <2>1, <2>2, <2>3 DEF NothingFor
    <2>5. ~Quietly(w)  BY <1>3, <2>4 DEF Calm
    <2>6. late' = late /\ draining' = draining
      BY DEF PumpGrant, PumpReserved, PumpShared, drains
    <2>7. \A t \in Waiter : Quietly(t)' => Quietly(t) /\ (GrantedTo(t) = {} => GrantedTo(t)' = {})
      <3> SUFFICES ASSUME NEW t \in Waiter, Quietly(t)'
                   PROVE  Quietly(t) /\ (GrantedTo(t) = {} => GrantedTo(t)' = {})
        OBVIOUS
      <3>1. Quietly(t)  BY <1>0, <2>6 DEF Quietly
      <3>2. t # w  BY <2>5, <3>1
      <3>3. GrantedTo(t)' = GrantedTo(t)  BY <2>1, <3>2 DEF GrantedTo
      <3>4. QED  BY <3>1, <3>3
    <2>8. \A u \in Service, d \in Class : WaitersIn(u, d)' \subseteq WaitersIn(u, d)
      <3>1. AccountTypes /\ QueuesInOrder /\ Once /\ credit \in [Service -> [SharedMembers -> Int]]
        BY DEF LedgerInv, AccountsInv, QueuesInv, OtherTypes
      <3>2. ServeStep  BY <3>1, PumpServes
      <3>3. PICK u \in Service, d \in Class : queue[u][d] # <<>> /\ Pops(u, d)
        BY <3>2 DEF ServeStep
      <3>4. QED  BY <3>1, <3>3, ServeMoves
    <2>9. \A u \in Service :
              /\ Physical(u)' < PhysicalCap => Physical(u) < PhysicalCap
              /\ \A d \in Class : Slots(u, d) = {} => Slots(u, d)' = {}
      BY PumpGrantLess
    <2>10. Calm'  BY <1>0, <1>3, <2>6, <2>7, <2>8, <2>9, CalmMoves
    <2>11. QED  BY <2>10 DEF WakeInv
  <1>4. QED  BY <1>2, <1>3 DEF WakeInv

\* A call that gets what it asks for.
LEMMA GetsWake ==
    ASSUME LedgerInv, LedgerInv', TaskTypes, KnownInv, WakeInv, Gets
    PROVE  WakeInv'
  <1>1. PICK t \in Waiter, claim \in Claim : AskGranted(t, claim) \/ AskMany(t, claim)  BY DEF Gets
  <1>2. /\ stage[t] = "Out" /\ Goes(t, "Holding")
        /\ UNCHANGED <<queue, late, draining, woken, owner, served, alarm>>
    BY <1>1, AskedIs
  <1>3. Calling => Calling'  BY <1>2, CallsOn DEF Callers
  <1>4. \A u \in Waiter : Quietly(u)' => Quietly(u)
    BY <1>2 DEF Quietly, Goes, TaskTypes
  <1>5. \A u \in Waiter : GrantedTo(u)' = GrantedTo(u)
    <2>1. PICK ids \in SUBSET Permit :
                 /\ \A p \in ids : /\ permits[p] = NoPermit /\ permits'[p] # NoPermit
                                   /\ permits'[p].waiter = NoWaiter
                 /\ \A p \in Permit \ ids : permits'[p] = permits[p]
      BY <1>1, AskedIs
    <2>2. NoWaiter \notin Waiter  BY BudgetAssumption
    <2>3. \A u \in Waiter, p \in Permit :
             permits'[p] # NoPermit /\ permits'[p].waiter = u
             <=> permits[p] # NoPermit /\ permits[p].waiter = u
      BY <2>1, <2>2
    <2>4. QED  BY <2>3 DEF GrantedTo, InHand
  <1>6. PICK g : Grants(g)
    <2>1. AccountTypes  BY DEF LedgerInv, AccountsInv
    <2>2. CASE AskGranted(t, claim)
      <3>1. PICK p \in Permit : Admit(claim, p)  BY <2>2 DEF AskGranted
      <3>2. QED  BY <2>1, <3>1, AdmitTakes DEF AdmitStep
    <2>3. CASE AskMany(t, claim)
      <3>1. PICK ids \in SUBSET Permit : AdmitMany([p \in ids |-> claim])  BY <2>3 DEF AskMany
      <3>2. [p \in ids |-> claim] \in [ids -> Claim]  OBVIOUS
      <3>3. AdmitStep  BY <2>1, <3>1, <3>2, AdmitManyTakes
      <3>4. QED  BY <3>3 DEF AdmitStep
    <2>4. QED  BY <1>1, <2>2, <2>3
  <1>7. \A s \in Service :
              /\ Physical(s)' < PhysicalCap => Physical(s) < PhysicalCap
              /\ \A c \in Class : Slots(s, c) = {} => Slots(s, c)' = {}
    BY <1>6, GrantsLess DEF LedgerInv, AccountsInv
  <1>8. \A s \in Service, c \in Class : WaitersIn(s, c)' = WaitersIn(s, c)  BY <1>2, SameQueues
  <1>9. Calm => Calm'  BY <1>2, <1>4, <1>5, <1>7, <1>8, CalmMoves DEF LedgerInv
  <1>10. QED  BY <1>3, <1>9 DEF WakeInv

LEMMA WakeKept ==
    ASSUME LedgerInv, LedgerInv', TaskTypes, HoldInv, PumpInv, MutexInv, KnownInv, WakeInv, [Next]_vars
    PROVE  WakeInv'
  <1>0. /\ OtherTypes /\ OtherTypes' /\ QueuesInOrder /\ HoldsInHand
        /\ ~Joins => \A s \in Service, c \in Class : WaitersIn(s, c)' \subseteq WaitersIn(s, c)
    BY OnlyJoinsCome DEF LedgerInv, QueuesInv, HoldInv
  <1>1. ASSUME UNCHANGED <<stage, woken, owner, served, alarm>>, late \subseteq late',
               UNCHANGED <<permits, reservedUse, sharedUsed, attached, draining>>, ~Joins
        PROVE  WakeInv'
    <2>1. Calling => Calling'  BY <1>1 DEF Calling, Settles
    <2>2. \A u \in Waiter : Quietly(u)' => Quietly(u)  BY <1>1 DEF Quietly
    <2>3. \A s, c : Physical(s)' = Physical(s) /\ Slots(s, c)' = Slots(s, c)  BY <1>1, SameLedger
    <2>4. \A u : GrantedTo(u)' = GrantedTo(u)  BY <1>1, SamePermits
    <2>5. Calm => Calm'  BY <1>0, <1>1, <2>2, <2>3, <2>4, CalmMoves
    <2>6. QED  BY <2>1, <2>5 DEF WakeInv
  <1>2. CASE UNCHANGED vars
    <2>1. WakeInv' = WakeInv
      <3>1. \A s, c : Physical(s)' = Physical(s) /\ Slots(s, c)' = Slots(s, c)
        BY <1>2, SameLedger DEF vars
      <3>2. \A u : GrantedTo(u)' = GrantedTo(u)  BY <1>2, SamePermits DEF vars
      <3>3. \A s, c : WaitersIn(s, c)' = WaitersIn(s, c)  BY <1>2, SameQueues DEF vars
      <3>4. UNCHANGED <<stage, woken, owner, served, alarm, late, known, draining>>  BY <1>2 DEF vars
      <3>5. Calling' = Calling  BY <3>4 DEF Calling, Settles
      <3>6. \A u : NothingFor(u)' = NothingFor(u)  BY <3>1, <3>2, <3>3, <3>4 DEF NothingFor
      <3>7. Calm' = Calm  BY <3>4, <3>6 DEF Calm, Quietly
      <3>8. QED  BY <3>5, <3>7 DEF WakeInv
    <2>2. QED  BY <2>1
  <1>3. CASE MovesOn  BY <1>3, MovesOnWake
  <1>4. CASE Notes
    <2>1. /\ UNCHANGED <<permits, reservedUse, sharedUsed, attached, draining, queue>>
          /\ late \subseteq late'
      BY <1>0, <1>4, NotesLedger DEF RestStep
    <2>2. PICK t \in Waiter :
            \/ Overdue(t)
            \/ \E claim \in Claim : AskBusy(t, claim) \/ AskDenied(t, claim) \/ AskManyRefused(t, claim)
      BY <1>4 DEF Notes
    <2>3. /\ UNCHANGED <<woken, owner, served, alarm>>
          /\ stage' = stage \/ (stage[t] = "Out" /\ Goes(t, "Refused"))
      BY <2>2 DEF Overdue, AskBusy, AskDenied, AskManyRefused, taskVars
    <2>4. \A s \in Service, c \in Class : WaitersIn(s, c)' = WaitersIn(s, c)  BY <2>1, SameQueues
    <2>5. CASE stage' = stage
      <3>1. Calling => Calling'  BY <2>3, <2>5 DEF Calling, Settles
      <3>2. \A u \in Waiter : Quietly(u)' => Quietly(u)  BY <2>1, <2>3, <2>5 DEF Quietly
      <3>3. \A s, c : Physical(s)' = Physical(s) /\ Slots(s, c)' = Slots(s, c)  BY <2>1, SameLedger
      <3>4. \A u : GrantedTo(u)' = GrantedTo(u)  BY <2>1, SamePermits
      <3>5. Calm => Calm'  BY <1>0, <2>1, <2>4, <3>2, <3>3, <3>4, CalmMoves
      <3>6. QED  BY <3>1, <3>5 DEF WakeInv
    <2>6. CASE stage[t] = "Out" /\ Goes(t, "Refused")
      <3>1. Calling => Calling'  BY <2>3, <2>6, CallsOn DEF Callers
      <3>2. Calm => Calm'
        <4>1. woken \cup late \subseteq woken' \cup late'  BY <2>1, <2>3
        <4>2. QED  BY <1>0, <2>1, <2>4, <2>6, <4>1, CalmGoes
      <3>3. QED  BY <3>1, <3>2 DEF WakeInv
    <2>7. QED  BY <2>3, <2>5, <2>6
  <1>5. CASE Gets  BY <1>5, GetsWake
  <1>6. CASE PumpBegins /\ ~Joins
    <2>1. PICK t \in Waiter : Settle(t) \/ Advance(t) \/ \E claim \in Claim : Probe(t, claim)
      BY <1>6 DEF PumpBegins
    <2>2. /\ UNCHANGED <<permits, reservedUse, sharedUsed, attached, late, draining>>
          /\ UNCHANGED <<woken, alarm>> /\ owner = NoWaiter
      BY <2>1 DEF Settle, Advance, Probe, PumpStart, accounts, drains, MutexFree
    <2>3. PICK to : /\ Goes(t, to) /\ to # "Asleep"
                    /\ stage[t] \notin Callers \/ to \in Callers
      BY <2>1 DEF Settle, Advance, Probe, Callers
    <2>4. ~Settles  BY <2>2 DEF Settles
    <2>5. Calling => Calling'  BY <2>2, <2>3, <2>4, CallsOn
    <2>6. Calm => Calm'  BY <1>0, <1>6, <2>2, <2>3, CalmGoes
    <2>7. QED  BY <2>5, <2>6 DEF WakeInv
  <1>7. CASE Joins
    <2>1. PICK t \in Waiter : Join(t)  BY <1>7 DEF Joins
    <2>2. /\ UNCHANGED <<permits, reservedUse, sharedUsed, attached, draining>>
          /\ UNCHANGED <<woken, owner, served, alarm>>
          /\ stage[t] = "Refused" /\ Goes(t, "Listening") /\ late' = late \ {t}
      BY <2>1 DEF Join, Enqueue, accounts, drains
    <2>3. stage'[t] = "Listening" /\ \A u \in Waiter : u # t => stage'[u] = stage[u]
      BY <2>2 DEF Goes, TaskTypes
    <2>4. Calling => Calling'  BY <2>2, CallsOn DEF Callers
    <2>5. \A u \in Waiter : Quietly(u)' => Quietly(u)  BY <2>2, <2>3 DEF Quietly
    <2>6. \A s \in Service, c \in Class : \A e \in WaitersIn(s, c)' :
             e \in WaitersIn(s, c) \/ ~Quietly(e.id)'
      <3>1. ~Quietly(t)'  BY <2>3 DEF Quietly
      <3>2. QED  BY <2>1, <3>1, JoinComes
    <2>7. Calm => Calm'
      <3>1. \A s, c : Physical(s)' = Physical(s) /\ Slots(s, c)' = Slots(s, c)  BY <2>2, SameLedger
      <3>2. \A u : GrantedTo(u)' = GrantedTo(u)  BY <2>2, SamePermits
      <3>3. QED  BY <1>0, <2>2, <2>5, <2>6, <3>1, <3>2, CalmMoves
    <2>8. QED  BY <2>4, <2>7 DEF WakeInv
  <1>8. CASE GivesBack
    <2>1. PICK t \in Waiter, to \in {"Notify", "Advance"} : Goes(t, to)
      BY <1>8 DEF GivesBack, DropGuard, GiveBack
    <2>2. QED  BY <2>1, CallsNow DEF WakeInv, Callers
  <1>9. CASE PumpOn /\ ~Joins
    <2>1. CASE PumpGrant  BY <1>0, <1>9, <2>1, GrantWake
    <2>2. CASE PumpNext(pump.service) /\ served' = served
      <3>1. UNCHANGED <<permits, reservedUse, sharedUsed, attached, late, draining>>
        BY <2>2 DEF PumpNext, accounts, drains
      <3>2. UNCHANGED <<stage, woken, owner, alarm>>  BY <1>9 DEF PumpOn
      <3>3. QED  BY <1>1, <1>9, <2>2, <3>1, <3>2
    <2>3. QED  BY <1>0, <1>9, <2>1, <2>2, PumpOnIs
  <1>10. CASE Outside  BY <1>10 DEF Outside, WakeInv, Calling
  <1>11. QED
    BY <1>2, <1>3, <1>4, <1>5, <1>6, <1>7, <1>8, <1>9, <1>10, Steps

--------------------------------------------------------------------------------
(* The invariant, and what it gives.                                            *)

CoInv == LedgerInv /\ TaskTypes /\ MutexInv /\ KnownInv /\ HoldInv /\ PumpInv /\ WakeInv

LEMMA InitCoInv == Init => CoInv
  <1> SUFFICES ASSUME Init PROVE CoInv  OBVIOUS
  <1>1. LedgerInv  BY InvHoldsFirst DEF Init
  <1>2. TaskTypes  BY DEF Init, TaskTypes
  <1>3. owner = NoWaiter /\ \A t \in Waiter : stage[t] = "Out" /\ hold[t] = {}  BY DEF Init
  <1>4. MutexInv  BY <1>3 DEF Init, MutexInv, LedgerInit, Idle, Unlocked, Pumping
  <1>5. \A s \in Service, c \in Class : WaitersIn(s, c) = {}
    BY DEF Init, LedgerInit, WaitersIn
  <1>6. KnownInv  BY <1>5 DEF KnownInv
  <1>7. Queued = {}  BY <1>5 DEF Queued, Waiters
  <1>8. InHand = {} /\ \A t : GrantedTo(t) = {}
    BY DEF Init, LedgerInit, InHand, GrantedTo
  <1>9. HoldInv
    BY <1>3, <1>7, <1>8 DEF HoldInv, HoldsInHand, OneEach, Accounted, TaskPlace
  <1>10. PumpInv  BY <1>3 DEF PumpInv
  <1>11. WakeInv  BY <1>3 DEF WakeInv, Calm, Quietly
  <1>12. QED  BY <1>1, <1>2, <1>4, <1>6, <1>9, <1>10, <1>11 DEF CoInv

LEMMA CoInvKept == CoInv /\ [Next]_vars => CoInv'
  <1> SUFFICES ASSUME CoInv, [Next]_vars PROVE CoInv'  OBVIOUS
  <1>1. /\ LedgerInv /\ TaskTypes /\ MutexInv /\ KnownInv /\ HoldInv /\ PumpInv /\ WakeInv
        /\ OtherTypes /\ HoldsInHand
    BY DEF CoInv, LedgerInv, HoldInv
  <1>2. LedgerInv'  BY <1>1, LedgerKept
  <1>3. TaskTypes'  BY <1>1, TaskTypesKept
  <1>4. MutexInv'  BY <1>1, MutexKept
  <1>5. KnownInv'  BY <1>1, KnownKept
  <1>6. HoldInv'  BY <1>1, HoldKept
  <1>7. PumpInv'  BY <1>1, PumpKept
  <1>8. WakeInv'  BY <1>1, <1>2, WakeKept
  <1>9. QED  BY <1>2, <1>3, <1>4, <1>5, <1>6, <1>7, <1>8 DEF CoInv

LEMMA CoInvariant == Spec => []CoInv
  BY InitCoInv, CoInvKept, PTL DEF Spec

\* The tasks and the ledger they share keep their types.
THEOREM CoordinatorTypes == Spec => []TypeOK
  <1>1. CoInv => TypeOK  BY LedgerInvTypes DEF CoInv, TaskTypes, TypeOK
  <1>2. QED  BY <1>1, CoInvariant, PTL

\* A call that is dropped or times out while the pump grants it a permit leaves no
\* permit behind: every permit in hand is held, or a call still on its way will find it.
THEOREM NothingLeaks == Spec => []NoPermitLeak
  <1>1. ASSUME CoInv PROVE NoPermitLeak
    <2> SUFFICES ASSUME NEW p \in InHand,
                        ~\E t \in Waiter : permits[p].waiter = t /\ stage[t] \in Waiting
                 PROVE  \E t \in Waiter : p \in hold[t] /\ stage[t] \in Keeping
      BY DEF NoPermitLeak, Keeping
    <2>1. HoldInv /\ AccountTypes  BY <1>1 DEF CoInv, LedgerInv, AccountsInv
    <2>2. permits[p].waiter \in Waiter \cup {NoWaiter}
      BY <2>1 DEF AccountTypes, InHand, Grant
    <2>3. \E t \in Waiter : p \in hold[t]
      <3>1. CASE permits[p].waiter = NoWaiter  BY <2>1, <3>1 DEF HoldInv, Accounted
      <3>2. CASE permits[p].waiter \in Waiter
        <4>1. PICK t \in Waiter : permits[p].waiter = t  BY <3>2
        <4>2. p \in GrantedTo(t) /\ stage[t] \notin Waiting  BY <4>1 DEF GrantedTo
        <4>3. QED  BY <2>1, <4>2 DEF HoldInv, TaskPlace
      <3>3. QED  BY <2>2, <3>1, <3>2
    <2>4. QED  BY <2>1, <2>3 DEF HoldInv, TaskPlace
  <1>2. QED  BY <1>1, CoInvariant, PTL

\* No permit is given to two tasks, and what a task holds has not gone back behind it.
THEOREM PermitsHaveOneHolder == Spec => []OneHolder
  <1>1. CoInv => OneHolder  BY DEF CoInv, HoldInv, HoldsInHand, OneEach, OneHolder
  <1>2. QED  BY <1>1, CoInvariant, PTL

\* When nobody is left to notify or to look, no sleeper has been granted a permit, and
\* nobody is queued for a slot that is free: no wakeup is lost between look and sleep.
THEOREM WakeupsAreNotLost == Spec => []NoLostWakeup
  <1>1. ASSUME CoInv PROVE NoLostWakeup
    <2> SUFFICES ASSUME ~Stirring
                 PROVE  /\ \A t \in Waiter : stage[t] = "Asleep" => GrantedTo(t) = {}
                        /\ \A s \in known \ draining : Physical(s) < PhysicalCap =>
                              \A c \in Class : queue[s][c] # <<>> => Slots(s, c) = {}
      BY DEF NoLostWakeup
    <2>1. /\ LedgerInv /\ TaskTypes /\ MutexInv /\ HoldInv /\ WakeInv
          /\ OtherTypes /\ QueuesInOrder
      BY <1>1 DEF CoInv, LedgerInv, QueuesInv
    <2>2. owner = NoWaiter /\ ~alarm /\ \A t \in Waiter : stage[t] \notin Pumping
      BY <2>1, BudgetAssumption DEF Stirring, MutexInv
    <2>3. \A t \in Waiter : stage[t] \notin Callers \cup {"Listening", "Check"}
      BY <2>2 DEF Stirring, Callers, Pumping
    <2>4. Calm  BY <2>1, <2>2, <2>3 DEF WakeInv, Calling, Settles
    <2>5. \A t \in Waiter : stage[t] = "Asleep" => NothingFor(t)
      BY <2>4 DEF Stirring, Calm, Quietly
    <2>6. \A t \in Queued : t \in Waiter => stage[t] = "Asleep"
      BY <2>1, <2>2, <2>3 DEF HoldInv, TaskPlace, Waiting, Pumping, Callers
    <2>7. ASSUME NEW s \in known \ draining, Physical(s) < PhysicalCap, NEW c \in Class,
                 queue[s][c] # <<>>
          PROVE  Slots(s, c) = {}
      <3>1. s \in Service  BY <2>1 DEF OtherTypes
      <3>2. PICK lanes : lanes = queue[s][c]  OBVIOUS
      <3>3. PICK e : e = Head(Head(lanes).waiters)  OBVIOUS
      <3>4. e \in EntriesOf(queue[s][c]) /\ e \in Entry
        <4>1. WellQueue(lanes, s, c) /\ lanes # <<>>  BY <2>1, <2>7, <3>1, <3>2 DEF QueuesInOrder
        <4>2. e \in EntriesOf(lanes)  BY <3>3, <4>1, PoppedIs
        <4>3. QED  BY <3>2, <4>1, <4>2, EntriesBelong
      <3>5. e \in WaitersIn(s, c) /\ e.id \in Waiter  BY <3>4, WaitersInIs DEF Entry
      <3>6. e.id \in Queued  BY <3>1, <3>5, WaitersAre, QueuedAre
      <3>7. NothingFor(e.id)  BY <2>5, <2>6, <3>5, <3>6
      <3>8. QED  BY <2>7, <3>5, <3>7 DEF NothingFor
    <2>8. QED  BY <2>5, <2>7 DEF NothingFor
  <1>2. QED  BY <1>1, CoInvariant, PTL

--------------------------------------------------------------------------------
(* What the ledger promises holds while the tasks use it, wait and are dropped. *)

\* A step of a task is no step of the ledger, or one of these; a waiter that is
\* dropped leaves its queue and gives its permit back at once.
LEMMA TaskSteps ==
    ASSUME CoInv, [Next]_vars
    PROVE  \/ UNCHANGED ledgerVars
           \/ RestStep \/ AttachStep \/ AdmitStep \/ ServeStep
           \/ EnqueueStep \/ LeaveStep \/ BackStep
  <1>1. LedgerInv /\ TaskTypes /\ HoldsInHand /\ OtherTypes  BY DEF CoInv, HoldInv, LedgerInv
  <1>2. CASE UNCHANGED vars \/ MovesOn  BY <1>2, MovesOnLedger DEF vars, ledgerVars
  <1>3. CASE Notes  BY <1>1, <1>3, NotesLedger
  <1>4. CASE Gets \/ PumpBegins \/ Joins \/ PumpOn \/ Outside
    <2>1. LedgerNext
      BY <1>1, <1>4, GetsLedger, PumpBeginsLedger, JoinsLedger, PumpOnLedger, OutsideLedger
    <2>2. QED  BY <1>1, <2>1, LedgerSteps
  <1>5. CASE GivesBack
    <2>1. /\ \/ UNCHANGED <<permits, reservedUse, sharedUse, sharedUsed>>
             \/ \E p \in InHand : Free(p)
          /\ queue' = queue \/ \E gone : Leave(gone)
          /\ attached' = attached
      BY <1>1, <1>5, GivesBackLedger
    <2>2. CASE \E p \in InHand : Free(p)  BY <2>1, <2>2 DEF BackStep
    <2>3. CASE UNCHANGED <<permits, reservedUse, sharedUse, sharedUsed>>
      BY <2>1, <2>3 DEF RestStep, LeaveStep
    <2>4. QED  BY <2>1, <2>2, <2>3
  <1>6. QED  BY <1>2, <1>3, <1>4, <1>5, Steps

\* Calls that time out, are dropped or race for the mutex leave the accounts, the
\* limits and the queues of the ledger as it keeps them by itself.
THEOREM TasksKeepTheLedger ==
    Spec => [](AccountsMatchPermits /\ WithinQuota /\ QueuesWellFormed /\ QueuesWithinCaps)
  <1>1. CoInv => AccountsMatchPermits /\ WithinQuota /\ QueuesWellFormed /\ QueuesWithinCaps
    BY LedgerInvQueues DEF CoInv, LedgerInv, AccountsInv
  <1>2. QED  BY CoInvariant, <1>1, PTL

\* Principals take turns whoever is dropped, times out or gives a permit back.
THEOREM TasksTakeTurns == Spec => PrincipalsTakeTurns
  <1>1. CoInv /\ [Next]_vars => [TurnsTaken]_ledgerVars
    <2> SUFFICES ASSUME CoInv, [Next]_vars, ~UNCHANGED ledgerVars PROVE TurnsTaken  OBVIOUS
    <2>1. LedgerInv  BY DEF CoInv
    <2>2. QED  BY <2>1, TaskSteps, StepTakesTurns
  <1>2. Spec => [][TurnsTaken]_ledgerVars  BY CoInvariant, <1>1, PTL DEF Spec
  <1>3. QED  BY <1>2 DEF TurnsTaken, PrincipalsTakeTurns

\* A service that is draining gives no task a permit, whatever the task is doing.
THEOREM TasksFindDrained == Spec => DrainedServiceGrantsNothing
  <1>1. CoInv /\ [Next]_vars => [DrainedSpared]_ledgerVars
    <2> SUFFICES ASSUME CoInv, [Next]_vars, ~UNCHANGED ledgerVars PROVE DrainedSpared  OBVIOUS
    <2>1. LedgerInv  BY DEF CoInv
    <2>2. QED  BY <2>1, TaskSteps, StepSparesDrained
  <1>2. Spec => [][DrainedSpared]_ledgerVars  BY CoInvariant, <1>1, PTL DEF Spec
  <1>3. QED  BY <1>2 DEF DrainedSpared, DrainedServiceGrantsNothing

\* A pump, whichever task runs it, leaves a service only when nobody there waits for
\* a slot that is free.
THEOREM TasksPumpForAll == Spec => PumpLeavesNoOneBehind
  <1>1. CoInv /\ [Next]_vars => [LeftServed]_ledgerVars
    <2> SUFFICES ASSUME CoInv, [Next]_vars PROVE LeftServed  OBVIOUS
    <2>1. LedgerInv /\ TaskTypes /\ HoldsInHand /\ OtherTypes  BY DEF CoInv, HoldInv, LedgerInv
    <2>2. CASE pump' = pump  BY <2>2 DEF LeftServed
    <2>3. CASE Gets \/ PumpBegins \/ Joins \/ PumpOn \/ Outside
      <3>1. LedgerNext
        BY <2>1, <2>3, GetsLedger, PumpBeginsLedger, JoinsLedger, PumpOnLedger, OutsideLedger
      <3>2. QED  BY <2>1, <3>1, PumpLeavesServed
    <2>4. CASE UNCHANGED vars \/ MovesOn \/ Notes \/ GivesBack
      BY <2>1, <2>2, <2>4, MovesOnLedger, NotesLedger, GivesBackLedger DEF vars, ledgerVars
    <2>5. QED  BY <2>3, <2>4, Steps
  <1>2. Spec => [][LeftServed]_ledgerVars  BY CoInvariant, <1>1, PTL DEF Spec
  <1>3. QED  BY <1>2 DEF LeftServed, PumpLeavesNoOneBehind

\* The coordinator with the history of the rotations it makes the ledger do.
RememberingInit == Init /\ passed = [s \in Service |-> NothingPassed]

RememberingSpec == RememberingInit /\ [][Next /\ Remembers]_<<vars, passed>>

LEMMA TasksRotate ==
    ASSUME CoInv, [Next /\ Remembers]_<<vars, passed>>
    PROVE  \/ UNCHANGED <<credit, passed>>
           \/ \E s \in Service : PumpShared(s) /\ PassesOver(s)
  <1>1. CASE UNCHANGED <<vars, passed>>  BY <1>1 DEF vars
  <1>2. CASE Next /\ Remembers
    <2>1. TaskTypes /\ HoldsInHand /\ OtherTypes  BY DEF CoInv, HoldInv, LedgerInv
    <2>2. LedgerNext \/ credit' = credit
      <3>1. CASE Gets \/ PumpBegins \/ Joins \/ PumpOn \/ Outside
        BY <2>1, <3>1, GetsLedger, PumpBeginsLedger, JoinsLedger, PumpOnLedger, OutsideLedger
      <3>2. CASE MovesOn \/ Notes \/ GivesBack
        BY <2>1, <3>2, MovesOnLedger, NotesLedger, GivesBackLedger DEF ledgerVars
      <3>3. QED  BY <1>2, <3>1, <3>2, Steps
    <2>3. QED  BY <1>2, <2>2, Remembered
  <1>3. QED  BY <1>1, <1>2

\* Whatever the tasks do, the shared slots pass over a class that keeps somebody
\* waiting two, four or eight times in a row at most: what starves a task is not the
\* rotation.
THEOREM TasksAreNotPassedOver ==
    ASSUME NEW s \in Service
    PROVE  RememberingSpec => []Rotation(s)!NoStarvation
  <1>1. RememberingSpec => Spec
    <2>1. [Next /\ Remembers]_<<vars, passed>> => [Next]_vars  OBVIOUS
    <2>2. RememberingInit => Init  BY DEF RememberingInit
    <2>3. QED  BY <2>1, <2>2, PTL DEF RememberingSpec, Spec
  <1>2. RememberingInit => RotationTypes /\ Rotation(s)!SharedInit
    BY RotationFirst DEF RememberingInit, Init
  <1>3. CoInv /\ RotationTypes /\ [Next /\ Remembers]_<<vars, passed>>
           => RotationTypes' /\ [Rotation(s)!SharedNext]_(Rotation(s)!sharedVars)
    BY TasksRotate, RotationStep
  <1>4. RememberingSpec => Rotation(s)!SharedSpec
    BY <1>1, <1>2, <1>3, CoInvariant, PTL DEF RememberingSpec, Rotation!SharedSpec
  <1>5. QED  BY <1>4, EveryRotationIsFair, PTL

================================================================================
