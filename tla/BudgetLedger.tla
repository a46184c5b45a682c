------------------------------ MODULE BudgetLedger ------------------------------
(* BudgetLedger: who may hold a physical connection of a database service.      *)
(* Each service has reserved slots per class and shared ones, at most           *)
(* PhysicalCap connections, and a queue per class in which principals take      *)
(* turns.  One mutex guards the ledger: an operation is one action, except      *)
(* pump, whose grants are steps between which nobody else gets the lock.        *)
(*                                                                              *)
(* Sources: execution/runtime/budget/{ledger,dispatch,queues,classes,sessions}  *)
(* .rs.  Deadlines are abstracted to the set of waiters whose time has come.    *)
EXTENDS RoundRobin, Sequences, FiniteSets

CONSTANTS
    Service, Principal, Org,
    Worker, NoWorker,       \* a claim may name the node it is issued on
    Waiter, NoWaiter,       \* waiter ids; NoWaiter for a direct grant
    Permit, NoPermit,       \* permit ids, reused here once nothing holds them
    Claim,                  \* the claims callers make, see ClaimType
    Reserved,               \* reserved slots of each class
    Shared,                 \* shared slots of a service
    PhysicalCap,            \* service_physical_connections
    ClassQueueCap, UserQueueCap,
    NoService

ClaimType == [service : Service, org : Org, principal : Principal, class : Class,
              worker : Worker \cup {NoWorker}, pinned : BOOLEAN]

ASSUME BudgetAssumption ==
    /\ Claim \subseteq ClaimType
    /\ IsFiniteSet(Permit)
    /\ Reserved \in [Class -> Nat]
    /\ {Shared, PhysicalCap, ClassQueueCap, UserQueueCap} \subseteq Nat
    /\ NoWorker \notin Worker /\ NoWaiter \notin Waiter
    /\ NoPermit \notin [claim : ClaimType, slot : {"Reserved", "Shared"},
                        waiter : Waiter \cup {NoWaiter}]
    /\ NoService \notin Service

VARIABLES
    known,          \* services the ledger has a record of
    permits,        \* the permits in hand, by id
    reservedUse,    \* ClassBucket::reserved_in_use, by service and class
    sharedUse,      \* ClassBucket::shared_in_use
    sharedUsed,     \* ServiceState::shared_used
    attached,       \* ServiceState::physical: connections attached to sessions
    queue,          \* ClassQueue by service and class: the lanes in turn order,
                    \* each waiter with the whole claim it came with
    late,           \* waiters whose deadline has passed
    credit,         \* SharedRoundRobin by service
    draining, drainingOrgs, drainingNodes,
    pump            \* the running pump: its service and the class served last

accounts == <<permits, reservedUse, sharedUse, sharedUsed>>
drains   == <<draining, drainingOrgs, drainingNodes>>
ledgerVars == <<known, permits, reservedUse, sharedUse, sharedUsed, attached, queue, late,
                credit, draining, drainingOrgs, drainingNodes, pump>>

Grant == [claim : ClaimType, slot : {"Reserved", "Shared"}, waiter : Waiter \cup {NoWaiter}]
Entry == [id : Waiter, claim : ClaimType]
Lane  == [principal : Principal, waiters : Seq(Entry)]

LedgerTypeOK ==
    /\ known \subseteq Service
    /\ permits \in [Permit -> Grant \cup {NoPermit}]
    /\ reservedUse \in [Service -> [Class -> Nat]]
    /\ sharedUse \in [Service -> [Class -> Nat]]
    /\ sharedUsed \in [Service -> Nat]
    /\ attached \in [Service -> Nat]
    /\ queue \in [Service -> [Class -> Seq(Lane)]]
    /\ late \subseteq Waiter
    /\ credit \in [Service -> [SharedMembers -> Int]]
    /\ draining \subseteq Service /\ drainingOrgs \subseteq Org
    /\ drainingNodes \subseteq Worker
    /\ pump \in [service : Service \cup {NoService}, todo : SUBSET Service, last : 0..4]

Idle == [service |-> NoService, todo |-> {}, last |-> 0]

LedgerInit ==
    /\ known = {}
    /\ permits = [p \in Permit |-> NoPermit]
    /\ reservedUse = [s \in Service |-> [c \in Class |-> 0]]
    /\ sharedUse = [s \in Service |-> [c \in Class |-> 0]]
    /\ sharedUsed = [s \in Service |-> 0]
    /\ attached = [s \in Service |-> 0]
    /\ queue = [s \in Service |-> [c \in Class |-> <<>>]]
    /\ late = {}
    /\ credit = [s \in Service |-> NoCredit]
    /\ draining = {} /\ drainingOrgs = {} /\ drainingNodes = {}
    /\ pump = Idle

--------------------------------------------------------------------------------
Unlocked == pump.service = NoService

InHand == {p \in Permit : permits[p] # NoPermit}
PermitsOf(s) == {p \in InHand : permits[p].claim.service = s}

\* physical_of: attached connections and permits in hand.
Physical(s) == attached[s] + Cardinality(PermitsOf(s))

Headroom(s, c) == Reserved[c] - reservedUse[s][c]

\* pick_slot.
Slots(s, c) ==
    IF Headroom(s, c) > 0 THEN {"Reserved"}
    ELSE IF c \in SharedMembers /\ sharedUsed[s] < Shared THEN {"Shared"} ELSE {}

\* The waiters of a class queue, and those of one principal in a service.
LaneWaiters(lane) == {lane.waiters[i] : i \in DOMAIN lane.waiters}
WaitersIn(s, c) == UNION {LaneWaiters(queue[s][c][i]) : i \in DOMAIN queue[s][c]}
Waiters == UNION {WaitersIn(s, c) : s \in Service, c \in Class}
Queued == {e.id : e \in Waiters}
Depth(s, c) == Cardinality(WaitersIn(s, c))
UserDepth(s, u) ==
    Cardinality({e \in UNION {WaitersIn(s, c) : c \in Class} : e.claim.principal = u})

\* ClassQueue::push.
Pushed(lanes, e) ==
    LET mine(lane) == lane.principal = e.claim.principal
    IN IF \E i \in DOMAIN lanes : mine(lanes[i])
       THEN [i \in DOMAIN lanes |->
                IF mine(lanes[i]) THEN [lanes[i] EXCEPT !.waiters = Append(@, e)] ELSE lanes[i]]
       ELSE Append(lanes, [principal |-> e.claim.principal, waiters |-> <<e>>])

\* The elements of a sequence at some of its positions, in their order.
Nth(at, k) == CHOOSE i \in at : Cardinality({j \in at : j <= i}) = k
Selected(seq, at) == [k \in 1..Cardinality(at) |-> seq[Nth(at, k)]]

\* What is left of a lane when waiters go.
Staying(lane, gone) == {i \in DOMAIN lane.waiters : lane.waiters[i].id \notin gone}
Rest(lane, gone) == [lane EXCEPT !.waiters = Selected(@, Staying(lane, gone))]

\* Fault: lanes nobody waits in stay in the ring.
Without_KeepsLanes(lanes, gone) == [i \in DOMAIN lanes |-> Rest(lanes[i], gone)]

\* Waiters leave the queue, and lanes nobody waits in leave the ring
\* (ClassQueue::cancel and ClassQueue::expire).
Without(lanes, gone) ==
    Selected([i \in DOMAIN lanes |-> Rest(lanes[i], gone)],
             {i \in DOMAIN lanes : Staying(lanes[i], gone) # {}})

\* Fault: the principal just served stays at the head of the ring.
Popped_KeepsTurn(lanes) ==
    LET lane == [Head(lanes) EXCEPT !.waiters = Tail(@)]
    IN IF lane.waiters = <<>> THEN Tail(lanes) ELSE <<lane>> \o Tail(lanes)

\* ClassQueue::pop: the head of the first lane, whose principal goes to the end.
Popped(lanes) ==
    LET lane == [Head(lanes) EXCEPT !.waiters = Tail(@)]
    IN IF lane.waiters = <<>> THEN Tail(lanes) ELSE Append(Tail(lanes), lane)

\* occupy and commit_grant: a permit for each grant, in the slot it names.
Commit(grants) ==
    LET taken(s, c, slot) == {p \in DOMAIN grants : /\ grants[p].claim.service = s
                                                    /\ grants[p].claim.class = c
                                                    /\ grants[p].slot = slot}
        pooled(s) == {p \in DOMAIN grants : /\ grants[p].claim.service = s
                                            /\ grants[p].slot = "Shared"}
    IN /\ permits' = [p \in Permit |-> IF p \in DOMAIN grants THEN grants[p] ELSE permits[p]]
       /\ reservedUse' = [s \in Service |-> [c \in Class |->
                            reservedUse[s][c] + Cardinality(taken(s, c, "Reserved"))]]
       /\ sharedUse' = [s \in Service |-> [c \in Class |->
                            sharedUse[s][c] + Cardinality(taken(s, c, "Shared"))]]
       /\ sharedUsed' = [s \in Service |-> sharedUsed[s] + Cardinality(pooled(s))]

--------------------------------------------------------------------------------
(* Admission.  Every caller registers the service first (ensure_service).       *)

Ensure(s) ==
    /\ Unlocked /\ s \notin known
    /\ known' = known \cup {s}
    /\ UNCHANGED <<accounts, attached, queue, late, credit, drains, pump>>

\* What try_admit looks at before it looks for a slot.
Admissible(claim) ==
    /\ claim.worker \notin drainingNodes
    /\ claim.service \notin draining
    /\ claim.org \notin drainingOrgs
    /\ queue[claim.service][claim.class] = <<>>

\* try_admit answers Granted.
Admit(claim, p) ==
    /\ Unlocked
    /\ permits[p] = NoPermit
    /\ Admissible(claim)
    /\ Physical(claim.service) < PhysicalCap
    /\ known' = known \cup {claim.service}
    /\ \E slot \in Slots(claim.service, claim.class) :
          Commit([q \in {p} |-> [claim |-> claim, slot |-> slot, waiter |-> NoWaiter]])
    /\ UNCHANGED <<attached, queue, late, credit, drains, pump>>

\* try_admit answers Busy: there may be a slot later.  The physical limit is looked
\* at before the drains of the service and of the organization.
Busy(claim) ==
    /\ claim.worker \notin drainingNodes
    /\ \/ Physical(claim.service) >= PhysicalCap
       \/ /\ claim.service \notin draining /\ claim.org \notin drainingOrgs
          /\ \/ queue[claim.service][claim.class] # <<>>
             \/ Slots(claim.service, claim.class) = {}

\* The slots a batch may take: each class its reserve first, then the shared ones.
BatchSlots(claims) ==
    LET of(s, c) == {p \in DOMAIN claims : claims[p].service = s /\ claims[p].class = c}
        inService(s) == {p \in DOMAIN claims : claims[p].service = s}
    IN {slots \in [DOMAIN claims -> {"Reserved", "Shared"}] :
          LET shared == {p \in DOMAIN claims : slots[p] = "Shared"}
          IN \A s \in Service :
                /\ sharedUsed[s] + Cardinality(inService(s) \cap shared) <= Shared \/ inService(s) = {}
                /\ \A c \in Class :
                      LET own == of(s, c) \ shared
                      IN \/ of(s, c) \cap shared = {} /\ Cardinality(own) <= Headroom(s, c)
                         \/ c \in SharedMembers /\ Cardinality(own) = Headroom(s, c)}

\* Fault: the physical limit is looked at once for the whole batch.
AdmitMany_OneLook(claims) ==
    /\ Unlocked
    /\ \A p \in DOMAIN claims :
          /\ permits[p] = NoPermit
          /\ Admissible(claims[p])
          /\ Physical(claims[p].service) < PhysicalCap
    /\ known' = known \cup {claims[p].service : p \in DOMAIN claims}
    /\ \E slots \in BatchSlots(claims) :
          Commit([p \in DOMAIN claims |->
                    [claim |-> claims[p], slot |-> slots[p], waiter |-> NoWaiter]])
    /\ UNCHANGED <<attached, queue, late, credit, drains, pump>>

\* try_admit_many: every claim gets a slot, or what was taken is put back.
AdmitMany(claims) ==
    /\ Unlocked
    /\ \A p \in DOMAIN claims : permits[p] = NoPermit /\ Admissible(claims[p])
    /\ \A s \in Service :
          LET here == {p \in DOMAIN claims : claims[p].service = s}
          IN here # {} => Physical(s) + Cardinality(here) <= PhysicalCap
    /\ known' = known \cup {claims[p].service : p \in DOMAIN claims}
    /\ \E slots \in BatchSlots(claims) :
          Commit([p \in DOMAIN claims |->
                    [claim |-> claims[p], slot |-> slots[p], waiter |-> NoWaiter]])
    /\ UNCHANGED <<attached, queue, late, credit, drains, pump>>

QueueHasRoom(claim) ==
    /\ Depth(claim.service, claim.class) < ClassQueueCap
    /\ UserDepth(claim.service, claim.principal) < UserQueueCap

\* An id nothing refers to: next_waiter is never reused.
Fresh(w) == w \notin Queued /\ \A p \in InHand : permits[p].waiter # w

Enqueue(claim, w) ==
    /\ Unlocked
    /\ Fresh(w)
    /\ claim.worker \notin drainingNodes
    /\ claim.service \in known
    /\ QueueHasRoom(claim)
    /\ queue' = [queue EXCEPT ![claim.service][claim.class] =
                    Pushed(@, [id |-> w, claim |-> claim])]
    /\ late' = late \ {w}
    /\ UNCHANGED <<known, accounts, attached, credit, drains, pump>>

Leave(gone) ==
    queue' = [s \in Service |-> [c \in Class |-> Without(queue[s][c], gone)]]

\* cancel: of a waiter that is no longer queued it changes nothing.
Cancel(w) ==
    /\ Unlocked /\ w \in Queued
    /\ Leave({w})
    /\ late' = late \ {w}
    /\ UNCHANGED <<known, accounts, attached, credit, drains, pump>>

\* The deadline of a waiter passes.
Elapse(w) ==
    /\ Unlocked /\ w \in Queued \ late
    /\ late' = late \cup {w}
    /\ UNCHANGED <<known, accounts, attached, queue, credit, drains, pump>>

--------------------------------------------------------------------------------
(* Release.  A second release of a permit changes nothing.                      *)

\* The counters of permit p's slot, one less in the slots named.
Return(p, reserved, shared, pool) ==
    LET s == permits[p].claim.service
        c == permits[p].claim.class
        less(n, gives) == IF gives /\ n > 0 THEN n - 1 ELSE n
    IN /\ permits' = [permits EXCEPT ![p] = NoPermit]
       /\ reservedUse' = [reservedUse EXCEPT ![s][c] = less(@, reserved)]
       /\ sharedUse' = [sharedUse EXCEPT ![s][c] = less(@, shared)]
       /\ sharedUsed' = [sharedUsed EXCEPT ![s] = less(@, pool)]

\* Fault: a reserved slot is given back to the shared pool.
Free_ToShared(p) == Return(p, FALSE, TRUE, TRUE)

\* The slot goes back where it was taken from.
Free(p) ==
    LET shared == permits[p].slot = "Shared"
    IN Return(p, ~shared, shared, shared)

Release(p) ==
    /\ Unlocked /\ p \in InHand
    /\ Free(p)
    /\ late' = late \ {permits[p].waiter}
    /\ UNCHANGED <<known, attached, queue, credit, drains, pump>>

--------------------------------------------------------------------------------
(* pump: visits every service; takes out the waiters that are late; hands the   *)
(* reserved slots round the classes, then the shared ones by weight.            *)

\* Services are visited in the order of their ids; they share nothing here.
Visit(todo) ==
    IF todo = {} THEN pump' = Idle
    ELSE \E s \in todo : pump' = [service |-> s, todo |-> todo \ {s}, last |-> 0]

\* now_ms was read before the lock: a waiter may have become late since.
PumpStart(gone) ==
    /\ Unlocked
    /\ Visit(known)
    /\ Leave(gone)
    /\ UNCHANGED <<known, accounts, attached, late, credit, drains>>

\* The classes a reserved slot is free for and waited for.
Grantable(s) == {c \in Class : Headroom(s, c) > 0 /\ queue[s][c] # <<>>}

\* The shared members with somebody waiting.
Active(s) == {c \in SharedMembers : queue[s][c] # <<>>}

\* claim_of: the waiter record has kept neither the node nor the pin.
ClaimOf(claim) == [claim EXCEPT !.worker = NoWorker, !.pinned = FALSE]

\* The waiter at the head of the class queue gets a permit.
GrantHead(s, c, slot) ==
    LET e == Head(Head(queue[s][c]).waiters)
    IN /\ \E p \in Permit \ InHand :
             Commit([q \in {p} |-> [claim |-> ClaimOf(e.claim), slot |-> slot, waiter |-> e.id]])
       /\ queue' = [queue EXCEPT ![s][c] = Popped(@)]

\* Fault: a drain stops those who ask but not those who wait.
Serves_Draining(s) == pump.service = s /\ Physical(s) < PhysicalCap

Serves(s) == pump.service = s /\ s \notin draining /\ Physical(s) < PhysicalCap

\* Classes are offered their reserve in turn, over and over, from where it stands.
PumpReserved(s) ==
    /\ Serves(s)
    /\ \E i \in 1..4 :
          LET wait(j) == (j - pump.last - 1) % 4
          IN /\ ClassOrder[i] \in Grantable(s)
             /\ \A j \in 1..4 : ClassOrder[j] \in Grantable(s) => wait(i) <= wait(j)
             /\ GrantHead(s, ClassOrder[i], "Reserved")
             /\ pump' = [pump EXCEPT !.last = i]
    /\ UNCHANGED <<known, attached, late, credit, drains>>

\* With no reserved slot left to hand out, the weights decide.
PumpShared(s) ==
    /\ Serves(s)
    /\ Grantable(s) = {}
    /\ sharedUsed[s] < Shared
    /\ Active(s) # {}
    /\ GrantHead(s, Chosen(credit[s], Active(s)), "Shared")
    /\ credit' = [credit EXCEPT ![s] = AfterPick(@, Active(s))]
    /\ UNCHANGED <<known, attached, late, drains, pump>>

\* Fault: a pump that finds no shared slot looks no further.
PumpNext_SharedOnly(s) ==
    /\ pump.service = s
    /\ ~Serves(s) \/ sharedUsed[s] >= Shared \/ (Grantable(s) = {} /\ Active(s) = {})
    /\ Visit(pump.todo)
    /\ UNCHANGED <<known, accounts, attached, queue, late, credit, drains>>

\* What is left cannot be granted: a service that is draining, or full, or has no
\* slot for those who wait.
PumpNext(s) ==
    /\ pump.service = s
    /\ \/ ~Serves(s)
       \/ Grantable(s) = {} /\ (sharedUsed[s] >= Shared \/ Active(s) = {})
    /\ Visit(pump.todo)
    /\ UNCHANGED <<known, accounts, attached, queue, late, credit, drains>>

--------------------------------------------------------------------------------
(* Draining, and the connections of sessions.                                   *)

DrainConnection(s) ==
    /\ Unlocked /\ s \in known \ draining
    /\ draining' = draining \cup {s}
    /\ UNCHANGED <<known, accounts, attached, queue, late, credit,
                   drainingOrgs, drainingNodes, pump>>

\* Every service there is stops, whoever uses it.
DrainOrganization(o) ==
    /\ Unlocked /\ o \notin drainingOrgs
    /\ drainingOrgs' = drainingOrgs \cup {o}
    /\ draining' = draining \cup known
    /\ UNCHANGED <<known, accounts, attached, queue, late, credit, drainingNodes, pump>>

DrainNode(n) ==
    /\ Unlocked /\ n \notin drainingNodes
    /\ drainingNodes' = drainingNodes \cup {n}
    /\ UNCHANGED <<known, accounts, attached, queue, late, credit,
                   draining, drainingOrgs, pump>>

\* attach_physical of a session of service s.
Attach(s) ==
    /\ Unlocked /\ s \in known
    /\ Physical(s) < PhysicalCap
    /\ attached' = [attached EXCEPT ![s] = @ + 1]
    /\ UNCHANGED <<known, accounts, queue, late, credit, drains, pump>>

\* close_session of a session with a connection.
Detach(s) ==
    /\ Unlocked /\ attached[s] > 0
    /\ attached' = [attached EXCEPT ![s] = @ - 1]
    /\ UNCHANGED <<known, accounts, queue, late, credit, drains, pump>>

PumpGrant == \E s \in Service : PumpReserved(s) \/ PumpShared(s)

LedgerNext ==
    \/ \E s \in Service : Ensure(s) \/ Attach(s) \/ Detach(s) \/ DrainConnection(s)
    \/ \E claim \in Claim :
          \/ \E p \in Permit : Admit(claim, p)
          \/ \E w \in Waiter : Enqueue(claim, w)
    \/ \E ids \in SUBSET Permit : ids # {} /\ \E claims \in [ids -> Claim] : AdmitMany(claims)
    \/ \E w \in Waiter : Cancel(w) \/ Elapse(w)
    \/ \E p \in Permit : Release(p)
    \/ \E o \in Org : DrainOrganization(o)
    \/ \E n \in Worker : DrainNode(n)
    \/ \E gone \in SUBSET (late \cap Queued) : PumpStart(gone)
    \/ PumpGrant
    \/ \E s \in Service : PumpNext(s)

LedgerSpec == LedgerInit /\ [][LedgerNext]_ledgerVars

--------------------------------------------------------------------------------
(* Properties.                                                                  *)

Held(s, c, slot) == {p \in PermitsOf(s) : permits[p].claim.class = c /\ permits[p].slot = slot}
HeldShared(s) == {p \in PermitsOf(s) : permits[p].slot = "Shared"}

\* The counters of a service are the permits in hand, slot by slot: no grant,
\* batch, cancellation or release leaves a slot taken that nobody holds, or gives
\* a slot back twice.
AccountsMatchPermits ==
    \A s \in Service :
        /\ sharedUsed[s] = Cardinality(HeldShared(s))
        /\ \A c \in Class :
              /\ reservedUse[s][c] = Cardinality(Held(s, c, "Reserved"))
              /\ sharedUse[s][c] = Cardinality(Held(s, c, "Shared"))

\* No class is ever above its reserve, the shared slots are never oversold, Control
\* never takes one, and a service never has more connections than its limit.
WithinQuota ==
    \A s \in Service :
        /\ \A c \in Class : reservedUse[s][c] <= Reserved[c]
        /\ sharedUse[s]["Control"] = 0
        /\ sharedUsed[s] <= Shared
        /\ Physical(s) <= PhysicalCap

\* Every waiter is in one place: in one queue once, under its own principal and
\* class, with no lane left empty and one lane to a principal, or granted once, or
\* gone.  An expiry that emptied lanes it should have kept, or a pop that lost the
\* rest of a lane, would break it.
QueuesWellFormed ==
    /\ \A s \in Service, c \in Class :
          /\ \A i, j \in DOMAIN queue[s][c] :
                queue[s][c][i].principal = queue[s][c][j].principal => i = j
          /\ \A i \in DOMAIN queue[s][c] :
                LET lane == queue[s][c][i]
                IN /\ lane.waiters # <<>>
                   /\ \A k, l \in DOMAIN lane.waiters :
                         /\ lane.waiters[k].id = lane.waiters[l].id => k = l
                         /\ lane.waiters[k].claim.principal = lane.principal
                         /\ lane.waiters[k].claim.service = s
                         /\ lane.waiters[k].claim.class = c
    /\ \A p, q \in InHand :
          permits[p].waiter # NoWaiter =>
             /\ permits[p].waiter \notin Queued
             /\ permits[q].waiter = permits[p].waiter => p = q

\* A full queue refuses; neither a class nor one user ever has more waiters than
\* the limits say.
QueuesWithinCaps ==
    \A s \in Service :
        /\ \A c \in Class : Depth(s, c) <= ClassQueueCap
        /\ \A u \in Principal : UserDepth(s, u) <= UserQueueCap

\* When the pump leaves a service that is not draining, nobody is left waiting
\* there for a slot that is free.
PumpLeavesNoOneBehind ==
    [][\A s \in Service :
         pump.service = s /\ pump'.service # s /\ s \notin draining /\ Physical(s) < PhysicalCap =>
            \A c \in Class : queue[s][c] # <<>> => Slots(s, c) = {}]_ledgerVars

LaneOf(lanes, u) == CHOOSE i \in DOMAIN lanes : lanes[i].principal = u
Waits(lanes, u) == \E i \in DOMAIN lanes : lanes[i].principal = u
NewlyGranted(w) == /\ \E p \in Permit : permits'[p] # NoPermit /\ permits'[p].waiter = w
                   /\ \A p \in InHand : permits[p].waiter # w

\* Principals of a class take turns: one who keeps waiting never loses a place to
\* another, and every grant to another one brings it a place forward, however many
\* requests the others have queued.
PrincipalsTakeTurns ==
    [][\A s \in Service, c \in Class, u \in Principal :
         LET before == queue[s][c]
             after  == queue'[s][c]
             grantedTo(v) == \E e \in WaitersIn(s, c) : NewlyGranted(e.id) /\ e.claim.principal = v
         IN Waits(before, u) /\ Waits(after, u) /\ ~grantedTo(u) =>
              /\ LaneOf(after, u) <= LaneOf(before, u)
              /\ (\E v \in Principal : grantedTo(v)) => LaneOf(after, u) < LaneOf(before, u)]_ledgerVars

\* Once a service is draining it grants nothing more, to those who ask and to those
\* who were waiting already.
DrainedServiceGrantsNothing ==
    [][\A s \in draining : \A p \in Permit :
         permits'[p] # NoPermit /\ permits'[p].claim.service = s => permits[p] = permits'[p]]_ledgerVars

================================================================================
