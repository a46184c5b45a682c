---------------------------- MODULE ProductionLeases ----------------------------
(* The lease ledger of an asynchronous host: ProductionLeaseManager in          *)
(* execution/runtime/resource/production.rs together with the pool policies it  *)
(* asks (resource/pool.rs).  Every operation takes the ledger's mutex, so each  *)
(* is one action.  The ledger never touches a connection: its callers open,     *)
(* reset and close, and report what happened.  Next lets callers do so in any   *)
(* order and with any answer, so what holds here holds whoever the caller is.   *)
(*                                                                              *)
(* Clocks are abstracted to what the code compares: an idle mark is fresh or    *)
(* past IDLE_POOL_TTL_SECONDS, a verification deadline is pending or due.       *)
EXTENDS LeaseStates, Naturals, FiniteSets

CONSTANTS
    Resource,       \* physical resource ids; one becomes available again once
                    \* nothing refers to it, as a new uuid would
    Key,            \* pool keys (connection, revisions, namespace, identity)
    Connection,     \* connection profiles
    ConnectionOf,   \* the profile a pool key was derived from
    MaxIdle,        \* PoolPolicy::stateful(max_idle)
    NoRow, NoKey    \* absence of a row; the sweeper's "no current key"

Purpose == {"Metadata", "FixedSession"}
Policy  == {"stateful", "stateless"}

\* idle: idle_since; verify: verify_after.  A confirmed close removes the row, so the
\* state Closed never remains in the ledger.
Row == [key : Key, purpose : Purpose, state : LeaseState \ {"Closed"},
        idle : {"no", "fresh", "expired"}, verify : {"none", "pending", "due"}]

ASSUME LedgerAssumption ==
    /\ ConnectionOf \in [Key -> Connection]
    /\ MaxIdle \in Nat \ {0}
    /\ NoRow \notin Row
    /\ NoKey \notin Key
    /\ IsFiniteSet(Resource)

VARIABLES
    rows,   \* State::rows
    pools   \* State::pools: the policy declared for a key, or "undeclared"

ledgerVars == <<rows, pools>>

LedgerTypeOK ==
    /\ rows \in [Resource -> Row \cup {NoRow}]
    /\ pools \in [Key -> Policy \cup {"undeclared"}]

LedgerInit ==
    /\ rows  = [r \in Resource |-> NoRow]
    /\ pools = [k \in Key |-> "undeclared"]

--------------------------------------------------------------------------------
Registered(r) == rows[r] # NoRow

Idle(r) == Registered(r) /\ rows[r].idle # "no"

IdleOf(k) == {r \in Resource : Idle(r) /\ rows[r].key = k}

\* PoolPolicy::max_idle: a stateless pool keeps nothing whatever was configured.
CapOf(policy) == IF policy = "stateful" THEN MaxIdle ELSE 0

\* Fault: the cap compared with the leases already parked, off by one.
PoolParks_OffByOne(r) ==
    /\ rows[r].purpose # "FixedSession"
    /\ pools[rows[r].key] = "stateful"
    /\ Cardinality(IdleOf(rows[r].key) \ {r}) <= MaxIdle

\* ConnectionPool::decide, given the idle leases of the key other than r.
PoolParks(r) ==
    /\ rows[r].purpose # "FixedSession"
    /\ pools[rows[r].key] = "stateful"
    /\ Cardinality(IdleOf(rows[r].key) \ {r}) < MaxIdle

\* PoolManager::declare accepts a first or an identical declaration.
DeclareAccepts(k, policy) == pools[k] \in {"undeclared", policy}

Opened(r, k, purpose, policy) ==
    /\ ~Registered(r)
    /\ DeclareAccepts(k, policy)
    /\ pools' = [pools EXCEPT ![k] = policy]
    /\ rows'  = [rows EXCEPT ![r] = [key |-> k, purpose |-> purpose,
                        state |-> "Acquired", idle |-> "no", verify |-> "none"]]

Executing(r) ==
    /\ Registered(r)
    /\ rows[r].state \in {"Acquired", "InUse"}
    /\ rows' = [rows EXCEPT ![r].state = "InUse"]
    /\ UNCHANGED pools

\* The driver's verdict, the host's snapshot and the pool policy all have to agree.
ReturnParks(r, clean, admits) == clean /\ admits /\ PoolParks(r)

Returning(r, clean, admits) ==
    /\ Registered(r)
    /\ UNCHANGED pools
    /\ IF ReturnParks(r, clean, admits)
       THEN /\ rows[r].state = "Acquired" \/ CanMove(rows[r].state, "Acquired")
            /\ rows' = [rows EXCEPT ![r].state = "Acquired", ![r].idle = "fresh"]
       ELSE rows' = IF rows[r].state \in {"Closing", "Quarantined"} THEN rows
                    ELSE [rows EXCEPT ![r].state = "Closing"]

\* closed(id, true): the row goes, and with the last row of a key its policy.
ClosedConfirmed(r) ==
    /\ Registered(r)
    /\ CanMove(rows[r].state, "Closed")
    /\ rows'  = [rows EXCEPT ![r] = NoRow]
    /\ pools' = IF \E o \in Resource \ {r} : Registered(o) /\ rows[o].key = rows[r].key
                THEN pools
                ELSE [pools EXCEPT ![rows[r].key] = "undeclared"]

\* Fault: a quarantine without a verification deadline.
ClosedUnconfirmed_NoDeadline(r) ==
    /\ Registered(r)
    /\ rows[r].state = "Quarantined" \/ CanMove(rows[r].state, "Quarantined")
    /\ rows' = [rows EXCEPT ![r].state = "Quarantined", ![r].idle = "no",
                            ![r].verify = "none"]
    /\ UNCHANGED pools

\* Fault: a connection that would not close goes back to its pool.
ClosedUnconfirmed_BackToPool(r) ==
    /\ Registered(r)
    /\ rows[r].state = "Quarantined" \/ CanMove(rows[r].state, "Quarantined")
    /\ rows' = [rows EXCEPT ![r].state = "Acquired", ![r].idle = "fresh"]
    /\ UNCHANGED pools

\* closed(id, false): kept, out of reach of claim_idle, verified 300 s later.
ClosedUnconfirmed(r) ==
    /\ Registered(r)
    /\ rows[r].state = "Quarantined" \/ CanMove(rows[r].state, "Quarantined")
    /\ rows' = [rows EXCEPT ![r].state = "Quarantined", ![r].idle = "no",
                            ![r].verify = "pending"]
    /\ UNCHANGED pools

Closed(r, confirmed) ==
    IF confirmed THEN ClosedConfirmed(r) ELSE ClosedUnconfirmed(r)

\* The leases quarantine_to_verify hands out, re-arming each under the lock.
VerifyBatch == {r \in Resource : /\ Registered(r)
                                 /\ rows[r].state = "Quarantined"
                                 /\ rows[r].verify = "due"}

QuarantineToVerify ==
    /\ rows' = [r \in Resource |->
                  IF r \in VerifyBatch THEN [rows[r] EXCEPT !.verify = "pending"]
                  ELSE rows[r]]
    /\ UNCHANGED pools

\* Fault: claim_idle looks at the state and not at the idle mark.
Claimable_NotIdle(k) == {r \in Resource : /\ Registered(r)
                                          /\ rows[r].key = k
                                          /\ rows[r].state = "Acquired"}

\* The leases claim_idle may find.
Claimable(k) == {r \in Resource : /\ Registered(r)
                                  /\ rows[r].key = k
                                  /\ rows[r].state = "Acquired"
                                  /\ rows[r].idle = "fresh"}

\* Fault: the claimed lease keeps its idle mark.
ClaimIdle_StillIdle(k, r) ==
    /\ r \in Claimable(k)
    /\ rows' = [rows EXCEPT ![r].state = "InUse"]
    /\ UNCHANGED pools

\* claim_idle: the map's iteration order decides which fresh lease is found.
ClaimIdle(k, r) ==
    /\ r \in Claimable(k)
    /\ rows' = [rows EXCEPT ![r].state = "InUse", ![r].idle = "no"]
    /\ UNCHANGED pools

\* Fault: the TTL is only looked at when a connection is being opened.
RetireBatch_OnlyOnOpen(current) ==
    {r \in Resource :
        /\ Idle(r)
        /\ current # NoKey
        /\ \/ rows[r].idle = "expired"
           \/ /\ ConnectionOf[rows[r].key] = ConnectionOf[current]
              /\ rows[r].key # current}

\* The idle leases idle_to_retire lists: expired ones, and those of another key
\* of the connection being opened.
RetireBatch(current) ==
    {r \in Resource :
        /\ Idle(r)
        /\ \/ rows[r].idle = "expired"
           \/ /\ current # NoKey
              /\ ConnectionOf[rows[r].key] = ConnectionOf[current]
              /\ rows[r].key # current}

\* Fault: the list is a snapshot and the leases stay idle until the caller acts on it.
IdleToRetire_Snapshot(current) == UNCHANGED ledgerVars

\* Listed leases start closing under the same lock as claim_idle.
IdleToRetire(current) ==
    /\ rows' = [r \in Resource |->
                  IF r \in RetireBatch(current) /\ CanMove(rows[r].state, "Closing")
                  THEN [rows[r] EXCEPT !.state = "Closing", !.idle = "no"]
                  ELSE rows[r]]
    /\ UNCHANGED pools

\* Time passes: a parked lease outlives its TTL, a quarantine's 300 s elapse.
IdleExpires(r) ==
    /\ Registered(r) /\ rows[r].idle = "fresh"
    /\ rows' = [rows EXCEPT ![r].idle = "expired"]
    /\ UNCHANGED pools

VerifyFallsDue(r) ==
    /\ Registered(r) /\ rows[r].verify = "pending"
    /\ rows' = [rows EXCEPT ![r].verify = "due"]
    /\ UNCHANGED pools

LedgerNext ==
    \/ \E r \in Resource, k \in Key, p \in Purpose, pol \in Policy :
          Opened(r, k, p, pol)
    \/ \E r \in Resource : Executing(r)
    \/ \E r \in Resource, clean, admits \in BOOLEAN : Returning(r, clean, admits)
    \/ \E r \in Resource, confirmed \in BOOLEAN : Closed(r, confirmed)
    \/ \E r \in Resource, k \in Key : ClaimIdle(k, r)
    \/ \E current \in Key \cup {NoKey} : IdleToRetire(current)
    \/ QuarantineToVerify
    \/ \E r \in Resource : IdleExpires(r)
    \/ \E r \in Resource : VerifyFallsDue(r)

LedgerSpec == LedgerInit /\ [][LedgerNext]_ledgerVars

--------------------------------------------------------------------------------
\* Whatever order the callers use, a pool never keeps more idle leases than the
\* policy its key was declared with: returning() counts and parks under one lock,
\* and a key cannot change policy while a lease of it lives.
PoolWithinCap == \A k \in Key : Cardinality(IdleOf(k)) <= CapOf(pools[k])

\* closed() forgets a key's policy with its last row and not before, so returning()
\* never falls back on the default policy of pool_or_default.
PolicyDeclaredWhileLeased ==
    \A k \in Key : pools[k] # "undeclared" <=>
                   \E r \in Resource : Registered(r) /\ rows[r].key = k

\* A lease the ledger began to close or quarantined is never issued or parked
\* again, by any sequence of calls: it can only go on to be removed.
NoReissueAfterDoubt ==
    [][\A r \in Resource :
          Registered(r) /\ rows[r].state \in {"Closing", "Quarantined"}
          => rows'[r] = NoRow \/ rows'[r].state \in {"Closing", "Quarantined"}]_ledgerVars

\* Uncertain closes are not forgotten: a quarantined row always carries a deadline
\* at which quarantine_to_verify hands it out again.
QuarantineIsArmed ==
    \A r \in Resource :
        Registered(r) => (rows[r].state = "Quarantined" <=> rows[r].verify # "none")

================================================================================
