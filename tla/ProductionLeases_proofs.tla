------------------------ MODULE ProductionLeases_proofs ------------------------
(* What the lease ledger guarantees for any number of resources, keys and       *)
(* profiles, and any order of calls.                                            *)
EXTENDS ProductionLeases, FiniteSetTheorems, TLAPS

LEMMA LedgerTypeInit == LedgerInit => LedgerTypeOK
  BY DEF LedgerInit, LedgerTypeOK

\* Type correctness: every operation of production.rs writes rows of the ledger's
\* type and policies of resource/pool.rs.
LEMMA LedgerTypeStep == LedgerTypeOK /\ [LedgerNext]_ledgerVars => LedgerTypeOK'
  <1> SUFFICES ASSUME LedgerTypeOK, [LedgerNext]_ledgerVars PROVE LedgerTypeOK'
    OBVIOUS
  <1> USE LedgerAssumption DEF LedgerTypeOK
  <1>1. ASSUME NEW r \in Resource, NEW k \in Key, NEW p \in Purpose, NEW pol \in Policy,
               Opened(r, k, p, pol)
        PROVE  LedgerTypeOK'
    <2>1. [key |-> k, purpose |-> p, state |-> "Acquired", idle |-> "no",
           verify |-> "none"] \in Row
      BY DEF Row, LeaseState
    <2>2. QED  BY <1>1, <2>1 DEF Opened
  <1>2. ASSUME NEW r \in Resource, Executing(r)
        PROVE  LedgerTypeOK'
    <2>1. rows[r] \in Row  BY <1>2 DEF Executing, Registered
    <2>2. [rows[r] EXCEPT !.state = "InUse"] \in Row  BY <2>1 DEF Row, LeaseState
    <2>3. QED  BY <1>2, <2>2 DEF Executing
  <1>3. ASSUME NEW r \in Resource, NEW clean \in BOOLEAN, NEW admits \in BOOLEAN,
               Returning(r, clean, admits)
        PROVE  LedgerTypeOK'
    <2>1. rows[r] \in Row  BY <1>3 DEF Returning, Registered
    <2>2. /\ [rows[r] EXCEPT !.state = "Acquired", !.idle = "fresh"] \in Row
          /\ [rows[r] EXCEPT !.state = "Closing"] \in Row
      BY <2>1 DEF Row, LeaseState
    <2>3. QED  BY <1>3, <2>2, ZenonT(60) DEF Returning
  <1>4. ASSUME NEW r \in Resource, NEW confirmed \in BOOLEAN, Closed(r, confirmed)
        PROVE  LedgerTypeOK'
    <2>1. rows[r] \in Row  BY <1>4 DEF Closed, ClosedConfirmed, ClosedUnconfirmed, Registered
    <2>2. [rows[r] EXCEPT !.state = "Quarantined", !.idle = "no", !.verify = "pending"] \in Row
      BY <2>1 DEF Row, LeaseState
    <2>3. rows[r].key \in Key  BY <2>1 DEF Row
    <2>4. QED  BY <1>4, <2>2, <2>3, ZenonT(60) DEF Closed, ClosedConfirmed, ClosedUnconfirmed
  <1>5. ASSUME NEW r \in Resource, NEW k \in Key, ClaimIdle(k, r)
        PROVE  LedgerTypeOK'
    <2>1. rows[r] \in Row  BY <1>5 DEF ClaimIdle, Claimable, Registered
    <2>2. [rows[r] EXCEPT !.state = "InUse", !.idle = "no"] \in Row
      BY <2>1 DEF Row, LeaseState
    <2>3. QED  BY <1>5, <2>2 DEF ClaimIdle
  <1>6. ASSUME NEW current \in Key \cup {NoKey}, IdleToRetire(current)
        PROVE  LedgerTypeOK'
    <2>1. ASSUME NEW r \in Resource, r \in RetireBatch(current)
          PROVE  [rows[r] EXCEPT !.state = "Closing", !.idle = "no"] \in Row
      <3>1. rows[r] \in Row  BY <2>1 DEF RetireBatch, Idle, Registered
      <3>2. QED  BY <3>1 DEF Row, LeaseState
    <2>2. QED  BY <1>6, <2>1 DEF IdleToRetire
  <1>7. ASSUME QuarantineToVerify
        PROVE  LedgerTypeOK'
    <2>1. ASSUME NEW r \in Resource, r \in VerifyBatch
          PROVE  [rows[r] EXCEPT !.verify = "pending"] \in Row
      <3>1. rows[r] \in Row  BY <2>1 DEF VerifyBatch, Registered
      <3>2. QED  BY <3>1 DEF Row
    <2>2. QED  BY <1>7, <2>1 DEF QuarantineToVerify
  <1>8. ASSUME NEW r \in Resource, IdleExpires(r)
        PROVE  LedgerTypeOK'
    <2>1. rows[r] \in Row  BY <1>8 DEF IdleExpires, Registered
    <2>2. [rows[r] EXCEPT !.idle = "expired"] \in Row  BY <2>1 DEF Row
    <2>3. QED  BY <1>8, <2>2 DEF IdleExpires
  <1>9. ASSUME NEW r \in Resource, VerifyFallsDue(r)
        PROVE  LedgerTypeOK'
    <2>1. rows[r] \in Row  BY <1>9 DEF VerifyFallsDue, Registered
    <2>2. [rows[r] EXCEPT !.verify = "due"] \in Row  BY <2>1 DEF Row
    <2>3. QED  BY <1>9, <2>2 DEF VerifyFallsDue
  <1>10. CASE UNCHANGED ledgerVars
    BY <1>10 DEF ledgerVars
  <1>11. QED
    BY <1>1, <1>2, <1>3, <1>4, <1>5, <1>6, <1>7, <1>8, <1>9, <1>10 DEF LedgerNext

THEOREM LedgerTypeCorrect == LedgerSpec => []LedgerTypeOK
  <1>1. QED  BY LedgerTypeInit, LedgerTypeStep, PTL DEF LedgerSpec

--------------------------------------------------------------------------------
(* The shape of a step: besides opened() and closed(id, true) every operation   *)
(* keeps the rows, their keys and the policies, and only returning() makes a    *)
(* lease idle, after the pool agreed.                                           *)

KeepsRows ==
    /\ UNCHANGED pools
    /\ \A o \in Resource : /\ rows'[o] = NoRow <=> rows[o] = NoRow
                           /\ rows[o] # NoRow => rows'[o].key = rows[o].key

NoNewIdle == \A o \in Resource : Idle(o)' => Idle(o)

ParksOne == \E r \in Resource : /\ Registered(r) /\ PoolParks(r)
                                /\ \A o \in Resource \ {r} : Idle(o)' => Idle(o)

LEMMA RowUpdate ==
    ASSUME LedgerTypeOK, NEW r \in Resource, Registered(r), NEW row \in Row,
           row.key = rows[r].key, rows' = [rows EXCEPT ![r] = row], UNCHANGED pools
    PROVE  /\ KeepsRows
           /\ row.idle = "no" \/ Idle(r) => NoNewIdle
           /\ \A o \in Resource \ {r} : Idle(o)' => Idle(o)
  BY LedgerAssumption DEF LedgerTypeOK, Registered, KeepsRows, NoNewIdle, Idle

LEMMA StepShape ==
    LedgerTypeOK /\ [LedgerNext]_ledgerVars
    => \/ \E r \in Resource, k \in Key, p \in Purpose, pol \in Policy : Opened(r, k, p, pol)
       \/ \E r \in Resource : ClosedConfirmed(r)
       \/ KeepsRows /\ (NoNewIdle \/ ParksOne)
  <1> DEFINE Kept == KeepsRows /\ (NoNewIdle \/ ParksOne)
  <1> SUFFICES ASSUME LedgerTypeOK, [LedgerNext]_ledgerVars,
                      ~ \E r \in Resource, k \in Key, p \in Purpose, pol \in Policy :
                           Opened(r, k, p, pol),
                      ~ \E r \in Resource : ClosedConfirmed(r)
               PROVE  Kept
    OBVIOUS
  <1>0. \A r \in Resource : Registered(r) => rows[r] \in Row
    BY DEF LedgerTypeOK, Registered
  <1>1. ASSUME NEW r \in Resource, Executing(r) PROVE Kept
    <2> DEFINE row == [rows[r] EXCEPT !.state = "InUse"]
    <2>1. Registered(r) /\ rows' = [rows EXCEPT ![r] = row] /\ UNCHANGED pools
      BY <1>1 DEF Executing
    <2>2. row \in Row /\ row.key = rows[r].key /\ row.idle = rows[r].idle
      BY <1>0, <2>1 DEF Row, LeaseState
    <2>3. row.idle = "no" \/ Idle(r)  BY <2>1, <2>2 DEF Idle
    <2> HIDE DEF row
    <2>4. QED  BY <2>1, <2>2, <2>3, RowUpdate
  <1>2. ASSUME NEW r \in Resource, NEW clean \in BOOLEAN, NEW admits \in BOOLEAN,
               Returning(r, clean, admits)
        PROVE  Kept
    <2> DEFINE parked  == [rows[r] EXCEPT !.state = "Acquired", !.idle = "fresh"]
               closing == [rows[r] EXCEPT !.state = "Closing"]
    <2>1. Registered(r) /\ UNCHANGED pools  BY <1>2 DEF Returning
    <2>2. /\ parked \in Row /\ parked.key = rows[r].key
          /\ closing \in Row /\ closing.key = rows[r].key /\ closing.idle = rows[r].idle
          /\ rows[r].idle = "no" \/ Idle(r)
      BY <1>0, <2>1 DEF Row, LeaseState, Idle
    <2>3. CASE ReturnParks(r, clean, admits)
      <3>1. rows' = [rows EXCEPT ![r] = parked] /\ PoolParks(r)
        BY <1>2, <2>3 DEF Returning, ReturnParks
      <3> HIDE DEF parked
      <3>2. QED  BY <2>1, <2>2, <3>1, RowUpdate DEF ParksOne
    <2>4. CASE ~ReturnParks(r, clean, admits)
      <3>1. rows' = rows \/ rows' = [rows EXCEPT ![r] = closing]
        BY <1>2, <2>4 DEF Returning
      <3>2. CASE rows' = rows
        BY <2>1, <3>2 DEF KeepsRows, NoNewIdle, Idle, Registered
      <3>3. CASE rows' = [rows EXCEPT ![r] = closing]
        <4> HIDE DEF closing
        <4>1. QED  BY <2>1, <2>2, <3>3, RowUpdate
      <3>4. QED  BY <3>1, <3>2, <3>3
    <2>5. QED  BY <2>3, <2>4
  <1>3. ASSUME NEW r \in Resource, ClosedUnconfirmed(r) PROVE Kept
    <2> DEFINE row == [rows[r] EXCEPT !.state = "Quarantined", !.idle = "no",
                                      !.verify = "pending"]
    <2>1. Registered(r) /\ rows' = [rows EXCEPT ![r] = row] /\ UNCHANGED pools
      BY <1>3 DEF ClosedUnconfirmed
    <2>2. row \in Row /\ row.key = rows[r].key /\ row.idle = "no"
      BY <1>0, <2>1 DEF Row, LeaseState
    <2> HIDE DEF row
    <2>3. QED  BY <2>1, <2>2, RowUpdate
  <1>4. ASSUME NEW r \in Resource, NEW k \in Key, ClaimIdle(k, r) PROVE Kept
    <2> DEFINE row == [rows[r] EXCEPT !.state = "InUse", !.idle = "no"]
    <2>1. Registered(r) /\ rows' = [rows EXCEPT ![r] = row] /\ UNCHANGED pools
      BY <1>4 DEF ClaimIdle, Claimable
    <2>2. row \in Row /\ row.key = rows[r].key /\ row.idle = "no"
      BY <1>0, <2>1 DEF Row, LeaseState
    <2> HIDE DEF row
    <2>3. QED  BY <2>1, <2>2, RowUpdate
  <1>5. ASSUME NEW current \in Key \cup {NoKey}, IdleToRetire(current) PROVE Kept
    <2>1. ASSUME NEW o \in Resource
          PROVE  /\ rows'[o] = NoRow <=> rows[o] = NoRow
                 /\ rows[o] # NoRow => rows'[o].key = rows[o].key
                 /\ Idle(o)' => Idle(o)
      <3> DEFINE closing == [rows[o] EXCEPT !.state = "Closing", !.idle = "no"]
      <3>1. CASE rows'[o] = rows[o]  BY <3>1 DEF Idle, Registered
      <3>2. CASE o \in RetireBatch(current) /\ rows'[o] = closing
        <4>1. Registered(o) /\ Idle(o)  BY <3>2 DEF RetireBatch, Idle
        <4>2. closing \in Row /\ closing.key = rows[o].key
          BY <1>0, <4>1 DEF Row, LeaseState
        <4>3. QED  BY <3>2, <4>1, <4>2, LedgerAssumption DEF Registered
      <3>3. QED  BY <1>5, <3>1, <3>2 DEF IdleToRetire
    <2>2. UNCHANGED pools  BY <1>5 DEF IdleToRetire
    <2>3. QED  BY <2>1, <2>2 DEF KeepsRows, NoNewIdle
  <1>6. ASSUME QuarantineToVerify PROVE Kept
    <2>1. ASSUME NEW o \in Resource
          PROVE  /\ rows'[o] = NoRow <=> rows[o] = NoRow
                 /\ rows[o] # NoRow => rows'[o].key = rows[o].key
                 /\ Idle(o)' => Idle(o)
      <3> DEFINE armed == [rows[o] EXCEPT !.verify = "pending"]
      <3>1. CASE rows'[o] = rows[o]  BY <3>1 DEF Idle, Registered
      <3>2. CASE o \in VerifyBatch /\ rows'[o] = armed
        <4>1. Registered(o)  BY <3>2 DEF VerifyBatch
        <4>2. armed \in Row /\ armed.key = rows[o].key /\ armed.idle = rows[o].idle
          BY <1>0, <4>1 DEF Row
        <4>3. QED  BY <3>2, <4>1, <4>2, LedgerAssumption DEF Registered, Idle
      <3>3. QED  BY <1>6, <3>1, <3>2 DEF QuarantineToVerify
    <2>2. UNCHANGED pools  BY <1>6 DEF QuarantineToVerify
    <2>3. QED  BY <2>1, <2>2 DEF KeepsRows, NoNewIdle
  <1>7. ASSUME NEW r \in Resource, IdleExpires(r) PROVE Kept
    <2> DEFINE row == [rows[r] EXCEPT !.idle = "expired"]
    <2>1. /\ Registered(r) /\ rows' = [rows EXCEPT ![r] = row] /\ UNCHANGED pools
          /\ Idle(r)
      BY <1>7 DEF IdleExpires, Idle
    <2>2. row \in Row /\ row.key = rows[r].key  BY <1>0, <2>1 DEF Row
    <2> HIDE DEF row
    <2>3. QED  BY <2>1, <2>2, RowUpdate
  <1>8. ASSUME NEW r \in Resource, VerifyFallsDue(r) PROVE Kept
    <2> DEFINE row == [rows[r] EXCEPT !.verify = "due"]
    <2>1. Registered(r) /\ rows' = [rows EXCEPT ![r] = row] /\ UNCHANGED pools
      BY <1>8 DEF VerifyFallsDue
    <2>2. /\ row \in Row /\ row.key = rows[r].key /\ row.idle = rows[r].idle
          /\ row.idle = "no" \/ Idle(r)
      BY <1>0, <2>1 DEF Row, Idle
    <2> HIDE DEF row
    <2>3. QED  BY <2>1, <2>2, RowUpdate
  <1>9. CASE UNCHANGED ledgerVars
    BY <1>9 DEF ledgerVars, KeepsRows, NoNewIdle, Idle, Registered
  <1>10. QED
    BY <1>1, <1>2, <1>3, <1>4, <1>5, <1>6, <1>7, <1>8, <1>9 DEF LedgerNext, Closed

--------------------------------------------------------------------------------
\* opened() declares a key with its first row, closed() forgets it with its last.
LEMMA PolicyStep ==
    LedgerTypeOK /\ PolicyDeclaredWhileLeased /\ [LedgerNext]_ledgerVars
    => PolicyDeclaredWhileLeased'
  <1> SUFFICES ASSUME LedgerTypeOK, PolicyDeclaredWhileLeased, [LedgerNext]_ledgerVars
               PROVE  PolicyDeclaredWhileLeased'
    OBVIOUS
  <1>1. ASSUME NEW r \in Resource, NEW k \in Key, NEW p \in Purpose, NEW pol \in Policy,
               Opened(r, k, p, pol)
        PROVE  PolicyDeclaredWhileLeased'
    <2> DEFINE row == [key |-> k, purpose |-> p, state |-> "Acquired", idle |-> "no",
                       verify |-> "none"]
    <2>1. row \in Row /\ row # NoRow /\ row.key = k
      BY LedgerAssumption DEF Row, LeaseState
    <2>2. pol # "undeclared"  BY DEF Policy
    <2>3. /\ rows' = [rows EXCEPT ![r] = row] /\ rows[r] = NoRow
          /\ pools' = [pools EXCEPT ![k] = pol]
      BY <1>1 DEF Opened, Registered
    <2> HIDE DEF row
    <2>4. QED
      BY <2>1, <2>2, <2>3 DEF PolicyDeclaredWhileLeased, LedgerTypeOK, Registered
  <1>2. ASSUME NEW r \in Resource, ClosedConfirmed(r) PROVE PolicyDeclaredWhileLeased'
    <2> DEFINE k == rows[r].key
    <2>1. Registered(r) /\ rows' = [rows EXCEPT ![r] = NoRow]
      BY <1>2 DEF ClosedConfirmed
    <2>2. k \in Key  BY <2>1 DEF LedgerTypeOK, Registered, Row
    <2>3. \A o \in Resource, j \in Key :
            (Registered(o) /\ rows[o].key = j)' <=> o # r /\ Registered(o) /\ rows[o].key = j
      BY <2>1 DEF LedgerTypeOK, Registered
    <2>4. CASE \E o \in Resource \ {r} : Registered(o) /\ rows[o].key = k
      <3>1. pools' = pools  BY <1>2, <2>4 DEF ClosedConfirmed
      <3>2. QED  BY <2>1, <2>3, <2>4, <3>1 DEF PolicyDeclaredWhileLeased
    <2>5. CASE ~ \E o \in Resource \ {r} : Registered(o) /\ rows[o].key = k
      <3>1. pools' = [pools EXCEPT ![k] = "undeclared"]  BY <1>2, <2>5 DEF ClosedConfirmed
      <3>2. QED
        BY <2>2, <2>3, <2>5, <3>1 DEF PolicyDeclaredWhileLeased, LedgerTypeOK
    <2>6. QED  BY <2>4, <2>5
  <1>3. CASE KeepsRows
    BY <1>3 DEF KeepsRows, PolicyDeclaredWhileLeased, Registered
  <1>4. QED  BY <1>1, <1>2, <1>3, StepShape

THEOREM PolicyStaysDeclared == LedgerSpec => []PolicyDeclaredWhileLeased
  <1>1. LedgerInit => PolicyDeclaredWhileLeased
    BY DEF LedgerInit, PolicyDeclaredWhileLeased, Registered
  <1>2. QED  BY <1>1, PolicyStep, LedgerTypeInit, LedgerTypeStep, PTL DEF LedgerSpec

--------------------------------------------------------------------------------
LEMMA IdleFinite ==
    ASSUME NEW k \in Key
    PROVE  IsFiniteSet(IdleOf(k)) /\ Cardinality(IdleOf(k)) \in Nat
  BY LedgerAssumption, FS_Subset, FS_CardinalityType DEF IdleOf

LEMMA IdleFiniteNext ==
    ASSUME NEW k \in Key
    PROVE  IsFiniteSet(IdleOf(k)') /\ Cardinality(IdleOf(k)') \in Nat
  <1>1. IdleOf(k)' \in SUBSET Resource  BY DEF IdleOf
  <1>2. QED  BY <1>1, LedgerAssumption, FS_Subset, FS_CardinalityType

\* returning() counts the other idle leases of the key and parks under one lock.
LEMMA CapStep ==
    /\ LedgerTypeOK /\ PolicyDeclaredWhileLeased /\ PolicyDeclaredWhileLeased'
    /\ PoolWithinCap /\ [LedgerNext]_ledgerVars
    => PoolWithinCap'
  <1> SUFFICES ASSUME LedgerTypeOK, PolicyDeclaredWhileLeased, PolicyDeclaredWhileLeased',
                      PoolWithinCap, [LedgerNext]_ledgerVars, NEW k \in Key
               PROVE  Cardinality(IdleOf(k)') <= CapOf(pools'[k])
    BY DEF PoolWithinCap, CapOf
  <1>0. CapOf(pools[k]) \in Nat /\ CapOf(pools'[k]) \in Nat
    BY LedgerAssumption DEF CapOf
  <1>1. ASSUME IdleOf(k)' \subseteq IdleOf(k), CapOf(pools[k]) <= CapOf(pools'[k])
        PROVE  Cardinality(IdleOf(k)') <= CapOf(pools'[k])
    <2>1. Cardinality(IdleOf(k)') <= Cardinality(IdleOf(k))
      BY <1>1, IdleFinite, FS_Subset
    <2>2. Cardinality(IdleOf(k)) <= CapOf(pools[k])  BY DEF PoolWithinCap
    <2>3. QED  BY <1>0, <1>1, <2>1, <2>2, IdleFinite, IdleFiniteNext
  <1>2. ASSUME pools'[k] = "undeclared" PROVE Cardinality(IdleOf(k)') <= CapOf(pools'[k])
    <2>1. IdleOf(k)' = {}
      BY <1>2 DEF PolicyDeclaredWhileLeased, IdleOf, Idle
    <2>2. QED  BY <1>0, <2>1, FS_EmptySet
  <1>3. ASSUME NEW r \in Resource, NEW j \in Key, NEW p \in Purpose, NEW pol \in Policy,
               Opened(r, j, p, pol)
        PROVE  Cardinality(IdleOf(k)') <= CapOf(pools'[k])
    <2> DEFINE row == [key |-> j, purpose |-> p, state |-> "Acquired", idle |-> "no",
                       verify |-> "none"]
    <2>1. row.idle = "no" /\ rows' = [rows EXCEPT ![r] = row]
      BY <1>3 DEF Opened
    <2> HIDE DEF row
    <2>2. \A o \in Resource : (Idle(o) /\ rows[o].key = k)' => Idle(o) /\ rows[o].key = k
      BY <2>1 DEF Idle, Registered, LedgerTypeOK
    <2>3. IdleOf(k)' \subseteq IdleOf(k)  BY <2>2 DEF IdleOf
    <2>4. CASE pools'[k] = pools[k]  BY <1>0, <1>1, <2>3, <2>4
    <2>5. CASE pools[k] = "undeclared"
      BY <1>0, <1>1, <2>3, <2>5, LedgerAssumption DEF CapOf
    <2>6. QED  BY <1>3, <2>4, <2>5 DEF Opened, DeclareAccepts, LedgerTypeOK
  <1>4. ASSUME NEW r \in Resource, ClosedConfirmed(r)
        PROVE  Cardinality(IdleOf(k)') <= CapOf(pools'[k])
    <2>1. rows' = [rows EXCEPT ![r] = NoRow]  BY <1>4 DEF ClosedConfirmed
    <2>2. IdleOf(k)' \subseteq IdleOf(k)
      BY <2>1 DEF IdleOf, Idle, Registered, LedgerTypeOK
    <2>3. pools'[k] = pools[k] \/ pools'[k] = "undeclared"
      BY <1>4 DEF ClosedConfirmed, LedgerTypeOK
    <2>4. CASE pools'[k] = pools[k]  BY <1>0, <1>1, <2>2, <2>4
    <2>5. QED  BY <1>2, <2>3, <2>4
  <1>5. CASE KeepsRows /\ NoNewIdle
    <2>1. IdleOf(k)' \subseteq IdleOf(k)
      BY <1>5 DEF IdleOf, KeepsRows, NoNewIdle, Idle, Registered
    <2>2. pools' = pools  BY <1>5 DEF KeepsRows
    <2>3. QED  BY <1>0, <1>1, <2>1, <2>2
  <1>6. CASE KeepsRows /\ ParksOne
    <2>1. pools' = pools  BY <1>6 DEF KeepsRows
    <2>2. PICK r \in Resource : /\ Registered(r) /\ PoolParks(r)
                                /\ \A o \in Resource \ {r} : Idle(o)' => Idle(o)
      BY <1>6 DEF ParksOne
    <2>3. CASE rows[r].key = k
      <3> DEFINE others == IdleOf(k) \ {r}
      <3>1. IdleOf(k)' \subseteq others \cup {r}
        BY <1>6, <2>2, <2>3 DEF IdleOf, KeepsRows, Idle, Registered
      <3>2. Cardinality(others) < MaxIdle /\ pools[k] = "stateful"
        BY <2>2, <2>3 DEF PoolParks
      <3>3. IsFiniteSet(others) /\ Cardinality(others) \in Nat
        BY IdleFinite, FS_Subset, FS_CardinalityType
      <3> HIDE DEF others
      <3>4. /\ IsFiniteSet(others \cup {r})
            /\ Cardinality(others \cup {r}) <= Cardinality(others) + 1
            /\ Cardinality(others \cup {r}) \in Nat
        <4>1. /\ IsFiniteSet(others \cup {r})
              /\ Cardinality(others \cup {r}) = IF r \in others THEN Cardinality(others)
                                                ELSE Cardinality(others) + 1
          BY <3>3, FS_AddElement
        <4>2. QED  BY <3>3, <4>1
      <3>5. Cardinality(IdleOf(k)') <= Cardinality(others \cup {r})
        BY <3>1, <3>4, FS_Subset
      <3>6. CapOf(pools'[k]) = MaxIdle  BY <2>1, <3>2 DEF CapOf
      <3>7. QED  BY <3>2, <3>3, <3>4, <3>5, <3>6, IdleFiniteNext, LedgerAssumption
    <2>4. CASE rows[r].key # k
      <3>1. IdleOf(k)' \subseteq IdleOf(k)
        BY <1>6, <2>2, <2>4 DEF IdleOf, KeepsRows, Idle, Registered
      <3>2. QED  BY <1>0, <1>1, <2>1, <3>1
    <2>5. QED  BY <2>3, <2>4
  <1>7. QED  BY <1>3, <1>4, <1>5, <1>6, StepShape

\* The pool bound, for every number of leases and keys.
THEOREM PoolStaysWithinCap == LedgerSpec => []PoolWithinCap
  <1>1. LedgerInit => PolicyDeclaredWhileLeased /\ PoolWithinCap
    <2>1. LedgerInit => PolicyDeclaredWhileLeased
      BY DEF LedgerInit, PolicyDeclaredWhileLeased, Registered
    <2>2. ASSUME LedgerInit, NEW k \in Key
          PROVE  Cardinality(IdleOf(k)) <= CapOf(pools[k])
      <3>1. IdleOf(k) = {}  BY <2>2 DEF LedgerInit, IdleOf, Idle, Registered
      <3>2. QED  BY <3>1, FS_EmptySet, LedgerAssumption DEF CapOf
    <2>3. QED  BY <2>1, <2>2 DEF PoolWithinCap
  <1>2. QED
    BY <1>1, CapStep, PolicyStep, LedgerTypeInit, LedgerTypeStep, PTL DEF LedgerSpec

--------------------------------------------------------------------------------
(* What one step may do to one row, operation by operation.                     *)

\* The rows a step can leave behind where there was a row: lifecycle edges only,
\* and a verification deadline exactly while quarantined.
RowStep(r) ==
    Registered(r) =>
        \/ rows'[r] = NoRow
        \/ rows'[r] = rows[r]
        \/ /\ rows'[r].verify = rows[r].verify
           /\ rows'[r].state # "Quarantined"
           /\ rows[r].state \notin {"Closing", "Quarantined"}
        \/ /\ rows'[r].state = rows[r].state
           /\ rows'[r].verify = "none" <=> rows[r].verify = "none"
        \/ rows'[r].state = "Quarantined" /\ rows'[r].verify # "none"

LEMMA EveryRowStep ==
    LedgerTypeOK /\ [LedgerNext]_ledgerVars => \A r \in Resource : RowStep(r)
  <1> SUFFICES ASSUME LedgerTypeOK, [LedgerNext]_ledgerVars, NEW r \in Resource, Registered(r)
               PROVE  RowStep(r)
    BY DEF RowStep
  <1>0. rows[r] \in Row /\ DOMAIN rows = Resource  BY DEF LedgerTypeOK, Registered
  <1>1. ASSUME NEW o \in Resource, NEW k \in Key, NEW p \in Purpose, NEW pol \in Policy,
               Opened(o, k, p, pol)
        PROVE  RowStep(r)
    BY <1>0, <1>1 DEF Opened, RowStep
  <1>2. ASSUME NEW o \in Resource, Executing(o) PROVE RowStep(r)
    BY <1>0, <1>2 DEF Executing, RowStep, Row
  <1>3. ASSUME NEW o \in Resource, NEW clean \in BOOLEAN, NEW admits \in BOOLEAN,
               Returning(o, clean, admits)
        PROVE  RowStep(r)
    BY <1>0, <1>3 DEF Returning, RowStep, Row, CanMove, LeaseTransitions
  <1>4. ASSUME NEW o \in Resource, NEW confirmed \in BOOLEAN, Closed(o, confirmed)
        PROVE  RowStep(r)
    BY <1>0, <1>4 DEF Closed, ClosedConfirmed, ClosedUnconfirmed, RowStep, Row
  <1>5. ASSUME NEW o \in Resource, NEW k \in Key, ClaimIdle(k, o) PROVE RowStep(r)
    BY <1>0, <1>5 DEF ClaimIdle, Claimable, RowStep, Row
  <1>6. ASSUME NEW current \in Key \cup {NoKey}, IdleToRetire(current) PROVE RowStep(r)
    BY <1>0, <1>6 DEF IdleToRetire, RowStep, Row, CanMove, LeaseTransitions
  <1>7. ASSUME QuarantineToVerify PROVE RowStep(r)
    BY <1>0, <1>7 DEF QuarantineToVerify, VerifyBatch, RowStep, Row
  <1>8. ASSUME NEW o \in Resource, IdleExpires(o) PROVE RowStep(r)
    BY <1>0, <1>8 DEF IdleExpires, RowStep, Row
  <1>9. ASSUME NEW o \in Resource, VerifyFallsDue(o) PROVE RowStep(r)
    BY <1>0, <1>9 DEF VerifyFallsDue, RowStep, Row
  <1>10. CASE UNCHANGED ledgerVars  BY <1>10 DEF ledgerVars, RowStep
  <1>11. QED
    BY <1>1, <1>2, <1>3, <1>4, <1>5, <1>6, <1>7, <1>8, <1>9, <1>10 DEF LedgerNext

\* Once closing or quarantined a lease is never issued or parked again.
THEOREM DoubtIsFinal == LedgerSpec => NoReissueAfterDoubt
  <1>1. LedgerTypeOK /\ [LedgerNext]_ledgerVars =>
          [\A r \in Resource :
             Registered(r) /\ rows[r].state \in {"Closing", "Quarantined"}
             => rows'[r] = NoRow \/ rows'[r].state \in {"Closing", "Quarantined"}]_ledgerVars
    BY EveryRowStep DEF RowStep
  <1>2. QED
    BY <1>1, LedgerTypeInit, LedgerTypeStep, PTL DEF LedgerSpec, NoReissueAfterDoubt

\* A quarantined lease always has a date at which it is verified.
THEOREM QuarantineStaysArmed == LedgerSpec => []QuarantineIsArmed
  <1>1. LedgerInit => QuarantineIsArmed
    BY DEF LedgerInit, QuarantineIsArmed, Registered
  <1>2. LedgerTypeOK /\ QuarantineIsArmed /\ [LedgerNext]_ledgerVars => QuarantineIsArmed'
    <2> SUFFICES ASSUME LedgerTypeOK, QuarantineIsArmed, [LedgerNext]_ledgerVars,
                        NEW r \in Resource, rows'[r] # NoRow
                 PROVE  rows'[r].state = "Quarantined" <=> rows'[r].verify # "none"
      BY DEF QuarantineIsArmed, Registered
    <2>1. CASE Registered(r)
      BY <2>1, EveryRowStep DEF RowStep, QuarantineIsArmed
    <2>2. CASE ~Registered(r)
      <3>1. ~KeepsRows  BY <2>2 DEF KeepsRows, Registered
      <3>2. CASE \E o \in Resource, k \in Key, p \in Purpose, pol \in Policy :
                   Opened(o, k, p, pol)
        BY <2>2, <3>2 DEF Opened, Registered, LedgerTypeOK
      <3>3. CASE \E o \in Resource : ClosedConfirmed(o)
        BY <2>2, <3>3 DEF ClosedConfirmed, Registered, LedgerTypeOK
      <3>4. QED  BY <3>1, <3>2, <3>3, StepShape
    <2>3. QED  BY <2>1, <2>2
  <1>3. QED  BY <1>1, <1>2, LedgerTypeInit, LedgerTypeStep, PTL DEF LedgerSpec

================================================================================
