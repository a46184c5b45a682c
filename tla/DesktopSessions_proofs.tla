------------------------- MODULE DesktopSessions_proofs -------------------------
(* That the desktop host never gives one connection to two tasks, never drops   *)
(* one that may be open, and implements LeaseCustody, for any number of         *)
(* sessions, connections and pool keys.                                         *)
EXTENDS DesktopSessions, ProductionLeases_proofs

--------------------------------------------------------------------------------
(* The inductive invariant: what each label of a task says of the connection in *)
(* its hands, and that no connection is in the hands or on the list of two.     *)

\* A row, as the invariant sees it.
St(r) == IF Registered(r) THEN rows[r].state ELSE "Gone"
Due(r) == Registered(r) /\ rows[r].verify = "due"

EmptyHanded == {"closed", "plan", "retire", "claim", "acquire", "idle", "verifyPlan", "verify"}
Retiring    == {"retire", "retireClose", "retireRemove"}
Verifying   == {"verify", "verifyClose", "verifyRemove"}
Ending      == {"retireClose", "observeClose", "unbind", "close"}
Removing    == {"retireRemove", "openRemove", "closeRemove", "verifyRemove"}
Placed      == {"lookup", "bind", "open", "closing", "retireClose", "unbind", "close",
                "verifyClose"}

\* A connection a task works on, or is going to.
Claims(t, r) == Holds(t, r) \/ r \in batch[t]

HandsMatch(t) ==
    /\ lease[t] = NoResource <=> pc[t] \in EmptyHanded
    /\ pc[t] \in Using => /\ St(lease[t]) \in {"Acquired", "InUse"}
                          /\ phys[lease[t]] = "open" /\ ~Idle(lease[t])
    /\ pc[t] \in Ending => St(lease[t]) = "Closing"
    /\ pc[t] \in Placed => lease[t] \in mapped
    /\ pc[t] = "retain" => St(lease[t]) = "Quarantined" /\ ~Due(lease[t])
    /\ pc[t] = "verifyClose" => St(lease[t]) = "Quarantined"
    /\ pc[t] \in Removing \cup {"refusedClose"} => St(lease[t]) = "Gone"
    /\ pc[t] \in Removing => phys[lease[t]] = "absent"
    /\ pc[t] = "refusedClose" => phys[lease[t]] = "open"

BatchMatches(t) ==
    \A r \in batch[t] :
        /\ ~Holds(t, r)
        /\ \/ pc[t] \in Retiring /\ St(r) = "Closing" /\ r \in mapped
           \/ pc[t] \in Verifying /\ St(r) = "Quarantined"

Exclusive == \A r \in Resource, t, u \in Task : Claims(t, r) /\ Claims(u, r) => t = u

ResourceMatches(r) ==
    /\ Idle(r) => /\ St(r) = "Acquired" /\ phys[r] = "open" /\ r \in mapped
                  /\ \A t \in Task : ~Claims(t, r)
    /\ St(r) # "Gone" => phys[r] # "absent"
    /\ phys[r] # "absent" => r \in mapped \/ \E t \in Task : Holds(t, r)

Inv ==
    /\ TypeOK
    /\ \A t \in Task : HandsMatch(t) /\ BatchMatches(t)
    /\ Exclusive
    /\ \A r \in Resource : ResourceMatches(r)

--------------------------------------------------------------------------------
(* What the operations of the ledger do to a row.                               *)

Same(o) == /\ St(o)' = St(o) /\ (Idle(o)' <=> Idle(o))
           /\ Due(o)' => Due(o)

OthersSame(r) == \A o \in Resource \ {r} : Same(o)

LEMMA OpenedRow ==
    ASSUME LedgerTypeOK, NEW r \in Resource, NEW k \in Key, NEW p \in Purpose,
           NEW pol \in Policy, Opened(r, k, p, pol)
    PROVE  /\ St(r) = "Gone" /\ St(r)' = "Acquired" /\ ~Idle(r)' /\ OthersSame(r)
  BY LedgerAssumption DEF LedgerTypeOK, Opened, St, Due, Idle, Registered, Same,
     OthersSame, Row, LeaseState

LEMMA ExecutingRow ==
    ASSUME LedgerTypeOK, NEW r \in Resource, Executing(r)
    PROVE  /\ St(r)' = "InUse" /\ Idle(r)' = Idle(r) /\ OthersSame(r)
  BY LedgerAssumption DEF LedgerTypeOK, Executing, St, Due, Idle, Registered, Same,
     OthersSame, Row, LeaseState

LEMMA ReturningRow ==
    ASSUME LedgerTypeOK, NEW r \in Resource, NEW clean, NEW admits,
           Returning(r, clean, admits)
    PROVE  /\ St(r) # "Gone" /\ OthersSame(r)
           /\ \/ ReturnParks(r, clean, admits) /\ St(r)' = "Acquired" /\ Idle(r)'
              \/ /\ ~ReturnParks(r, clean, admits) /\ (Idle(r)' <=> Idle(r))
                 /\ Due(r)' => Due(r)
                 /\ St(r)' = IF St(r) = "Quarantined" THEN "Quarantined" ELSE "Closing"
  BY LedgerAssumption DEF LedgerTypeOK, Returning, St, Due, Idle, Registered, Same,
     OthersSame, Row, LeaseState

LEMMA ClosedConfirmedRow ==
    ASSUME LedgerTypeOK, NEW r \in Resource, Closed(r, TRUE)
    PROVE  /\ St(r)' = "Gone" /\ ~Idle(r)' /\ OthersSame(r)
  BY LedgerAssumption DEF LedgerTypeOK, Closed, ClosedConfirmed, St, Due, Idle, Registered,
     Same, OthersSame, Row, LeaseState

LEMMA ClosedUnconfirmedRow ==
    ASSUME LedgerTypeOK, NEW r \in Resource, Closed(r, FALSE)
    PROVE  /\ St(r)' = "Quarantined" /\ ~Idle(r)' /\ ~Due(r)' /\ OthersSame(r)
  BY LedgerAssumption DEF LedgerTypeOK, Closed, ClosedUnconfirmed, St, Due, Idle,
     Registered, Same, OthersSame, Row, LeaseState

LEMMA ClaimIdleRow ==
    ASSUME LedgerTypeOK, NEW r \in Resource, NEW k \in Key, ClaimIdle(k, r)
    PROVE  /\ Idle(r) /\ St(r)' = "InUse" /\ ~Idle(r)' /\ OthersSame(r)
  BY LedgerAssumption, SMTT(60) DEF LedgerTypeOK, ClaimIdle, Claimable, St, Due, Idle, Registered,
     Same, OthersSame, Row, LeaseState

LEMMA IdleToRetireRows ==
    ASSUME LedgerTypeOK, NEW k, IdleToRetire(k)
    PROVE  /\ \A r \in RetireBatch(k) : /\ r \in Resource /\ Idle(r)
                                        /\ St(r) = "Acquired" => St(r)' = "Closing" /\ ~Idle(r)'
           /\ \A o \in Resource \ RetireBatch(k) : Same(o)
  BY LedgerAssumption, ZenonT(60) DEF LedgerTypeOK, IdleToRetire, RetireBatch, CanMove,
     LeaseTransitions, St, Due, Idle, Registered, Same, Row, LeaseState

LEMMA QuarantineToVerifyRows ==
    ASSUME LedgerTypeOK, QuarantineToVerify
    PROVE  /\ \A r \in VerifyBatch : r \in Resource /\ St(r) = "Quarantined" /\ Due(r)
           /\ \A o \in Resource : Same(o)
  BY LedgerAssumption DEF LedgerTypeOK, QuarantineToVerify, VerifyBatch, St, Due, Idle,
     Registered, Same, Row, LeaseState

LEMMA ClockRow ==
    ASSUME LedgerTypeOK, NEW r \in Resource, IdleExpires(r) \/ VerifyFallsDue(r)
    PROVE  /\ St(r)' = St(r) /\ (Idle(r)' <=> Idle(r)) /\ OthersSame(r)
  BY LedgerAssumption DEF LedgerTypeOK, IdleExpires, VerifyFallsDue, St, Due, Idle,
     Registered, Same, OthersSame, Row, LeaseState

LEMMA NoRowMoves ==
    ASSUME UNCHANGED rows
    PROVE  \A o \in Resource : Same(o)
  BY DEF St, Due, Idle, Registered, Same

--------------------------------------------------------------------------------
(* A step of task t that touches only the connections of R, which no other task *)
(* claims, leaves everybody else as they were.                                  *)

OnlyTask(t) ==
    \A u \in Task \ {t} : pc'[u] = pc[u] /\ lease'[u] = lease[u] /\ batch'[u] = batch[u]

OnlyTouches(t, R) ==
    /\ \A o \in Resource \ R : /\ Same(o) /\ phys'[o] = phys[o]
                               /\ o \in mapped' <=> o \in mapped
                               /\ Claims(t, o)' => Claims(t, o)
                               /\ Holds(t, o) => Holds(t, o)'
    /\ \A o \in R, u \in Task \ {t} : ~Claims(u, o)

LeavesSound(t, r) ==
    /\ Idle(r)' => /\ St(r)' = "Acquired" /\ phys'[r] = "open" /\ r \in mapped'
                   /\ ~Claims(t, r)'
    /\ St(r)' # "Gone" => phys'[r] # "absent"
    /\ phys'[r] # "absent" => r \in mapped' \/ Holds(t, r)'

LEMMA Frame ==
    ASSUME Inv, TypeOK', NEW t \in Task, NEW R \in SUBSET Resource,
           OnlyTask(t), OnlyTouches(t, R),
           HandsMatch(t)', BatchMatches(t)', \A r \in R : LeavesSound(t, r)
    PROVE  Inv'
  <1>1. \A u \in Task \ {t}, r \in Resource : /\ Claims(u, r)' <=> Claims(u, r)
                                              /\ Holds(u, r)' <=> Holds(u, r)
    BY DEF OnlyTask, Claims, Holds
  <1>2. ASSUME NEW u \in Task \ {t} PROVE HandsMatch(u)'
    <2>1. HandsMatch(u) /\ pc'[u] = pc[u] /\ lease'[u] = lease[u]
      BY DEF Inv, OnlyTask
    <2>2. CASE pc[u] \in EmptyHanded
      BY <2>1, <2>2 DEF HandsMatch, EmptyHanded, Using, Ending, Placed, Removing
    <2>3. CASE pc[u] = "parked"
      BY <2>1, <2>3 DEF HandsMatch, EmptyHanded, Using, Ending, Placed, Removing
    <2>4. CASE pc[u] \notin EmptyHanded /\ pc[u] # "parked"
      <3>1. lease[u] \in Resource /\ Holds(u, lease[u])
        BY <2>1, <2>4 DEF HandsMatch, Holds, Inv, TypeOK
      <3>2. lease[u] \notin R  BY <3>1 DEF OnlyTouches, Claims
      <3>3. /\ St(lease[u])' = St(lease[u]) /\ (Idle(lease[u])' <=> Idle(lease[u]))
            /\ (Due(lease[u])' => Due(lease[u])) /\ phys'[lease[u]] = phys[lease[u]]
            /\ (lease[u] \in mapped' <=> lease[u] \in mapped)
        BY <3>1, <3>2, <2>1 DEF OnlyTouches, Same, St, Idle, Due, Registered
      <3>4. QED  BY <2>1, <3>3 DEF HandsMatch, St, Idle, Due, Registered
    <2>5. QED  BY <2>2, <2>3, <2>4
  <1>3. ASSUME NEW u \in Task \ {t}, NEW r \in batch'[u]
        PROVE  /\ ~Holds(u, r)'
               /\ \/ pc'[u] \in Retiring /\ St(r)' = "Closing" /\ r \in mapped'
                  \/ pc'[u] \in Verifying /\ St(r)' = "Quarantined"
    <2>1. r \in batch[u] /\ pc'[u] = pc[u] /\ batch[u] \subseteq Resource
      BY <1>3 DEF OnlyTask, Inv, TypeOK
    <2>2. r \in Resource /\ r \notin R  BY <2>1 DEF OnlyTouches, Claims
    <2>3. St(r)' = St(r) /\ (r \in mapped' <=> r \in mapped)
      BY <2>2 DEF OnlyTouches, Same
    <2>4. BatchMatches(u)  BY DEF Inv
    <2>5. QED  BY <1>1, <2>1, <2>2, <2>3, <2>4 DEF BatchMatches
  <1>4. Exclusive'
    <2>1. ASSUME NEW r \in Resource, NEW u \in Task \ {t}, Claims(t, r)', Claims(u, r)'
          PROVE  FALSE
      <3>1. Claims(u, r)  BY <1>1, <2>1
      <3>2. r \notin R  BY <3>1 DEF OnlyTouches
      <3>3. Claims(t, r)  BY <2>1, <3>2 DEF OnlyTouches
      <3>4. QED  BY <3>1, <3>3 DEF Inv, Exclusive
    <2>2. \A r \in Resource, u, v \in Task \ {t} : Claims(u, r)' /\ Claims(v, r)' => u = v
      BY <1>1 DEF Inv, Exclusive
    <2>3. QED  BY <2>1, <2>2 DEF Exclusive
  <1>5. ASSUME NEW r \in Resource PROVE ResourceMatches(r)'
    <2>1. CASE r \in R
      <3>1. \A u \in Task \ {t} : ~Claims(u, r)'  BY <1>1, <2>1 DEF OnlyTouches
      <3>2. QED  BY <2>1, <3>1 DEF LeavesSound, ResourceMatches
    <2>2. CASE r \notin R
      <3>1. /\ St(r)' = St(r) /\ (Idle(r)' <=> Idle(r)) /\ phys'[r] = phys[r]
            /\ r \in mapped' <=> r \in mapped
            /\ Claims(t, r)' => Claims(t, r)
            /\ Holds(t, r) => Holds(t, r)'
        BY <2>2 DEF OnlyTouches, Same
      <3>2. ResourceMatches(r)  BY DEF Inv
      <3>3. QED  BY <1>1, <3>1, <3>2 DEF ResourceMatches
    <2>3. QED  BY <2>1, <2>2
  <1>6. \A u \in Task : BatchMatches(u)'
    <2>1. \A u \in Task \ {t} : BatchMatches(u)'  BY <1>3 DEF BatchMatches
    <2>2. QED  BY <2>1
  <1>7. \A u \in Task : HandsMatch(u)'  BY <1>2
  <1>8. QED  BY <1>4, <1>5, <1>6, <1>7 DEF Inv

LEMMA InHand ==
    ASSUME Inv, NEW t \in Task, pc[t] \notin EmptyHanded
    PROVE  lease[t] \in Resource /\ (pc[t] # "parked" => Holds(t, lease[t]))
  BY DEF Inv, TypeOK, HandsMatch, Holds

\* The host uses the ledger only through its operations.
LEMMA HostStepIsLedgerStep ==
    ASSUME Inv, [Next]_vars
    PROVE  [LedgerNext]_ledgerVars
  <1> USE DEF LedgerNext
  <1>1. ASSUME NEW t \in Task, Retire(t) PROVE [LedgerNext]_ledgerVars
    <2>1. CASE RetireNext(t)
      <3>1. \A r \in batch[t] : r \in Resource  BY DEF Inv, TypeOK
      <3>2. QED  BY <2>1, <3>1 DEF RetireNext, ledgerVars
    <2>2. CASE RetireAnswer(t)
      <3>1. lease[t] \in Resource  BY <2>2, InHand DEF RetireAnswer, EmptyHanded
      <3>2. QED  BY <2>2, <3>1 DEF RetireAnswer
    <2>3. CASE RetireRemove(t)  BY <2>3 DEF RetireRemove, ledgerVars
    <2>4. CASE RetireDone(t)  BY <2>4 DEF RetireDone, ledgerVars
    <2>5. QED  BY <1>1, <2>1, <2>2, <2>3, <2>4 DEF Retire
  <1>2. ASSUME NEW s \in Session, NEW k \in Key, NEW p \in Purpose, OpenBegin(s, k, p)
        PROVE  [LedgerNext]_ledgerVars
    BY <1>2 DEF OpenBegin, ledgerVars
  <1>3. ASSUME NEW s \in Session, Open(s) PROVE [LedgerNext]_ledgerVars
    <2>0. request[s].key \in Key /\ request[s].purpose \in Purpose  BY DEF Inv, TypeOK
    <2>1. CASE OpenPlan(s)  BY <2>0, <2>1 DEF OpenPlan
    <2>2. CASE OpenClaim(s)
      <3>1. Claimable(request[s].key) \subseteq Resource  BY DEF Claimable
      <3>2. QED  BY <2>0, <2>2, <3>1 DEF OpenClaim
    <2>3. CASE OpenAcquire(s)
      <3>1. PolicyOf(request[s]) \in Policy  BY DEF PolicyOf, Policy
      <3>2. QED  BY <2>0, <2>3, <3>1 DEF OpenAcquire, ledgerVars
    <2>4. CASE OpenObserveFails(s)
      <3>1. lease[s] \in Resource
        BY <2>4, InHand DEF OpenObserveFails, EmptyHanded, Task
      <3>2. QED  BY <2>4, <3>1 DEF OpenObserveFails
    <2>5. CASE OpenObserveAnswer(s)
      <3>1. lease[s] \in Resource
        BY <2>5, InHand DEF OpenObserveAnswer, EmptyHanded, Task
      <3>2. QED  BY <2>5, <3>1 DEF OpenObserveAnswer
    <2>6. CASE OpenAbandon(s) \/ OpenNoIdle(s) \/ OpenLookup(s) \/ OpenRefusedAnswer(s)
               \/ OpenObserved(s) \/ OpenRemove(s) \/ OpenRetain(s) \/ OpenInsert(s) \/ OpenBind(s)
      BY <2>6 DEF OpenAbandon, OpenNoIdle, OpenLookup, OpenRefusedAnswer, OpenObserved,
                  OpenRemove, OpenRetain, OpenInsert, OpenBind, ledgerVars
    <2>7. QED  BY <1>3, <2>1, <2>2, <2>3, <2>4, <2>5, <2>6 DEF Open
  <1>4. ASSUME NEW s \in Session, Execute(s) PROVE [LedgerNext]_ledgerVars
    <2>1. lease[s] \in Resource  BY <1>4, InHand DEF Execute, EmptyHanded, Task
    <2>2. QED  BY <1>4, <2>1 DEF Execute
  <1>5. ASSUME NEW s \in Session, CloseBegin(s) PROVE [LedgerNext]_ledgerVars
    BY <1>5 DEF CloseBegin, ledgerVars
  <1>6. ASSUME NEW s \in Session, Close(s) PROVE [LedgerNext]_ledgerVars
    <2>1. CASE CloseUnresolved(s)
      <3>1. lease[s] \in Resource
        BY <2>1, InHand DEF CloseUnresolved, EmptyHanded, Task
      <3>2. QED  BY <2>1, <3>1 DEF CloseUnresolved
    <2>2. CASE CloseReset(s)
      <3>1. lease[s] \in Resource
        BY <2>2, InHand DEF CloseReset, EmptyHanded, Task
      <3>2. QED  BY <2>2, <3>1 DEF CloseReset
    <2>3. CASE CloseAnswer(s)
      <3>1. lease[s] \in Resource
        BY <2>3, InHand DEF CloseAnswer, EmptyHanded, Task
      <3>2. QED  BY <2>3, <3>1 DEF CloseAnswer
    <2>4. CASE CloseParked(s) \/ CloseUnbind(s) \/ CloseRemove(s)
      BY <2>4 DEF CloseParked, CloseUnbind, CloseRemove, ledgerVars
    <2>5. QED  BY <1>6, <2>1, <2>2, <2>3, <2>4 DEF Close
  <1>7. ASSUME Reclaim PROVE [LedgerNext]_ledgerVars
    <2>1. CASE VerifyAnswer
      <3>1. lease[Reclaimer] \in Resource
        BY <2>1, InHand DEF VerifyAnswer, EmptyHanded, Task
      <3>2. QED  BY <2>1, <3>1 DEF VerifyAnswer
    <2>2. CASE Sweep \/ VerifyPlan  BY <2>2 DEF Sweep, VerifyPlan
    <2>3. CASE VerifyNext \/ VerifyRemove \/ VerifyDone
      BY <2>3 DEF VerifyNext, VerifyRemove, VerifyDone, ledgerVars
    <2>4. QED  BY <1>7, <2>1, <2>2, <2>3 DEF Reclaim
  <1>8. ASSUME NEW r \in Resource, Elapse(r) PROVE [LedgerNext]_ledgerVars
    BY <1>8 DEF Elapse
  <1>9. CASE UNCHANGED vars  BY <1>9 DEF vars, ledgerVars
  <1>10. QED
    BY <1>1, <1>2, <1>3, <1>4, <1>5, <1>6, <1>7, <1>8, <1>9 DEF Next

\* Types of the host's own state.
LEMMA HostTypeStep ==
    ASSUME Inv, [Next]_vars
    PROVE  TypeOK'
  <1>0. LedgerTypeOK'  BY HostStepIsLedgerStep, LedgerTypeStep DEF Inv, TypeOK
  <1>a. TypeOK  BY DEF Inv
  <1>b. \A s \in Session : s \in Task /\ s # Reclaimer
    BY DesktopAssumption DEF Task
  <1>c. \A k : RetireBatch(k) \subseteq Resource /\ VerifyBatch \subseteq Resource
    BY DEF RetireBatch, VerifyBatch
  <1>d. \A k \in Key : Claimable(k) \subseteq Resource  BY DEF Claimable
  <1> USE <1>0, <1>a, <1>b
  <1>1. ASSUME NEW t \in Task, Retire(t) PROVE TypeOK'
    <2>0. \A to \in {"retire", "retireClose", "retireRemove"} :
            Goto(t, to) => /\ pc' \in [Task -> SessionLabel \cup ReclaimerLabel]
                           /\ \A u \in Task : pc'[u] \in IF u = Reclaimer THEN ReclaimerLabel
                                                         ELSE SessionLabel
      BY DEF TypeOK, Goto, SessionLabel, ReclaimerLabel
    <2>1. CASE RetireNext(t)
      <3>1. PICK r \in batch[t] :
               /\ batch' = [batch EXCEPT ![t] = @ \ {r}]
               /\ \/ lease' = [lease EXCEPT ![t] = r] /\ Goto(t, "retireClose")
                  \/ lease' = lease /\ pc' = pc
        BY <2>1 DEF RetireNext
      <3>2. r \in Resource  BY DEF TypeOK
      <3>3. batch' \in [Task -> SUBSET Resource]  BY <3>1 DEF TypeOK
      <3>4. lease' \in [Task -> Resource \cup {NoResource}]  BY <3>1, <3>2 DEF TypeOK
      <3>5. QED  BY <2>0, <2>1, <3>1, <3>3, <3>4 DEF RetireNext, TypeOK, hostVars
    <2>2. CASE RetireAnswer(t)
      <3>1. lease' \in [Task -> Resource \cup {NoResource}]
        BY <2>2 DEF RetireAnswer, TypeOK
      <3>2. phys' \in [Resource -> {"absent", "open", "unsure"}]
        BY <2>2 DEF RetireAnswer, TypeOK, DriverClose
      <3>3. QED  BY <2>0, <2>2, <3>1, <3>2 DEF RetireAnswer, TypeOK
    <2>3. CASE RetireRemove(t)
      BY <2>3 DEF RetireRemove, TypeOK, Goto, SessionLabel, ReclaimerLabel
    <2>4. CASE RetireDone(t)
      BY <2>4 DEF RetireDone, TypeOK, Goto, hostVars, SessionLabel, ReclaimerLabel
    <2>5. QED  BY <1>1, <2>1, <2>2, <2>3, <2>4 DEF Retire
  <1>2. ASSUME NEW s \in Session, NEW k \in Key, NEW p \in Purpose, OpenBegin(s, k, p)
        PROVE  TypeOK'
    BY <1>2 DEF OpenBegin, TypeOK, Goto, SessionLabel
  <1>3. ASSUME NEW s \in Session, Open(s) PROVE TypeOK'
    <2>1. CASE OpenPlan(s)
      BY <1>c, <2>1 DEF OpenPlan, TypeOK, Goto, hostVars, SessionLabel
    <2>2. CASE OpenClaim(s)
      <3>1. request[s].key \in Key  BY DEF TypeOK
      <3>2. QED  BY <1>d, <2>2, <3>1 DEF OpenClaim, TypeOK, Goto, hostVars, SessionLabel
    <2>3. CASE OpenAcquire(s)
      <3>1. PICK r \in Resource, label \in {"observe", "refusedClose"} :
               /\ phys' = [phys EXCEPT ![r] = "open"]
               /\ lease' = [lease EXCEPT ![s] = r]
               /\ pc' = [pc EXCEPT ![s] = label]
        BY <2>3 DEF OpenAcquire, Goto
      <3>2. UNCHANGED <<mapped, bound, quota, batch, request>>  BY <2>3 DEF OpenAcquire
      <3>3. QED  BY <3>1, <3>2 DEF TypeOK, SessionLabel
    <2>4. CASE OpenObserveFails(s)
      BY <2>4 DEF OpenObserveFails, TypeOK, Goto, hostVars, SessionLabel
    <2>5. CASE OpenObserveAnswer(s)
      BY <2>5, ZenonT(60) DEF OpenObserveAnswer, TypeOK, Goto, DriverClose, SessionLabel
    <2>6. CASE OpenAbandon(s)
      BY <2>6 DEF OpenAbandon, Finish, TypeOK, Goto, SessionLabel
    <2>7. CASE OpenNoIdle(s)
      BY <2>7 DEF OpenNoIdle, TypeOK, Goto, hostVars, SessionLabel
    <2>8. CASE OpenLookup(s)
      BY <2>8 DEF OpenLookup, Finish, TypeOK, Goto, SessionLabel
    <2>9. CASE OpenRefusedAnswer(s)
      <3>1. lease[s] \in Resource
        BY <2>9, InHand DEF OpenRefusedAnswer, EmptyHanded
      <3>2. QED  BY <2>9, <3>1 DEF OpenRefusedAnswer, Finish, TypeOK, Goto, DriverClose,
                    SessionLabel
    <2>10. CASE OpenObserved(s)
      BY <2>10 DEF OpenObserved, TypeOK, Goto, hostVars, SessionLabel
    <2>11. CASE OpenRemove(s)
      BY <2>11 DEF OpenRemove, Finish, TypeOK, Goto, SessionLabel
    <2>12. CASE OpenRetain(s) \/ OpenInsert(s)
      <3>1. lease[s] \in Resource
        BY <2>12, InHand DEF OpenRetain, OpenInsert, EmptyHanded
      <3>2. QED  BY <2>12, <3>1 DEF OpenRetain, OpenInsert, Finish, TypeOK, Goto, SessionLabel
    <2>13. CASE OpenBind(s)
      BY <2>13 DEF OpenBind, TypeOK, Goto, SessionLabel
    <2>14. QED
      BY <1>3, <2>1, <2>2, <2>3, <2>4, <2>5, <2>6, <2>7, <2>8, <2>9, <2>10, <2>11, <2>12,
         <2>13 DEF Open
  <1>4. ASSUME NEW s \in Session, Execute(s) \/ CloseBegin(s) PROVE TypeOK'
    BY <1>4 DEF Execute, CloseBegin, TypeOK, Goto, hostVars, taskVars, SessionLabel
  <1>5. ASSUME NEW s \in Session, Close(s) PROVE TypeOK'
    <2>1. CASE CloseUnresolved(s)
      BY <2>1 DEF CloseUnresolved, Unbind, TypeOK, Goto, SessionLabel
    <2>2. CASE CloseReset(s)
      BY <2>2 DEF CloseReset, TypeOK, Goto, hostVars, SessionLabel
    <2>3. CASE CloseAnswer(s)
      BY <2>3, ZenonT(60) DEF CloseAnswer, TypeOK, Goto, DriverClose, SessionLabel
    <2>4. CASE CloseParked(s)
      BY <2>4 DEF CloseParked, Unbind, Finish, TypeOK, Goto, SessionLabel
    <2>5. CASE CloseUnbind(s)
      BY <2>5 DEF CloseUnbind, Unbind, TypeOK, Goto, SessionLabel
    <2>6. CASE CloseRemove(s)
      BY <2>6 DEF CloseRemove, Finish, TypeOK, Goto, SessionLabel
    <2>7. QED  BY <1>5, <2>1, <2>2, <2>3, <2>4, <2>5, <2>6 DEF Close
  <1>6. ASSUME Reclaim PROVE TypeOK'
    <2>0. Reclaimer \in Task  BY DEF Task
    <2>1. CASE Sweep \/ VerifyPlan
      <3>1. batch' \in [Task -> SUBSET Resource]
        <4>1. PICK plan \in SUBSET Resource : batch' = [batch EXCEPT ![Reclaimer] = plan]
          BY <1>c, <2>1 DEF Sweep, VerifyPlan
        <4>2. QED  BY <4>1 DEF TypeOK
      <3>2. PICK label \in {"retire", "verify"} : pc' = [pc EXCEPT ![Reclaimer] = label]
        BY <2>1 DEF Sweep, VerifyPlan, Goto
      <3>3. UNCHANGED <<hostVars, lease, request>>
        BY <2>1 DEF Sweep, VerifyPlan
      <3>4. QED  BY <2>0, <3>1, <3>2, <3>3 DEF TypeOK, hostVars, ReclaimerLabel
    <2>2. CASE VerifyNext
      BY <2>0, <2>2 DEF VerifyNext, TypeOK, Goto, hostVars, ReclaimerLabel
    <2>3. CASE VerifyAnswer
      BY <2>0, <2>3, ZenonT(60) DEF VerifyAnswer, TypeOK, Goto, DriverClose, ReclaimerLabel
    <2>4. CASE VerifyRemove \/ VerifyDone
      BY <2>0, <2>4 DEF VerifyRemove, VerifyDone, TypeOK, Goto, hostVars, ReclaimerLabel
    <2>5. QED  BY <1>6, <2>1, <2>2, <2>3, <2>4 DEF Reclaim
  <1>7. ASSUME NEW r \in Resource, Elapse(r) PROVE TypeOK'
    BY <1>7 DEF Elapse, TypeOK, hostVars, taskVars
  <1>8. CASE UNCHANGED vars  BY <1>8 DEF vars, TypeOK
  <1>9. QED
    BY <1>1, <1>2, <1>3, <1>4, <1>5, <1>6, <1>7, <1>8 DEF Next

--------------------------------------------------------------------------------
(* Steps that only move a task on.                                              *)

LEMMA LocalMove ==
    ASSUME Inv, TypeOK', NEW t \in Task, NEW to, Goto(t, to), pc[t] # "parked", to # "parked",
           UNCHANGED <<rows, phys, mapped, lease, batch>>,
           HandsMatch(t)', BatchMatches(t)'
    PROVE  Inv'
  <1>1. OnlyTask(t)  BY DEF OnlyTask, Goto, Inv, TypeOK
  <1>2. OnlyTouches(t, {})
    <2>1. \A o \in Resource : Holds(t, o)' <=> Holds(t, o)
      BY DEF Holds, Goto, Inv, TypeOK
    <2>2. QED  BY <2>1, NoRowMoves DEF OnlyTouches, Claims
  <1>3. QED  BY <1>1, <1>2, Frame

LEMMA LocalStep ==
    ASSUME Inv, TypeOK',
           \/ \E t \in Task : RetireDone(t)
           \/ \E s \in Session, k \in Key, p \in Purpose : OpenBegin(s, k, p)
           \/ \E s \in Session : OpenNoIdle(s) \/ OpenObserved(s) \/ OpenBind(s)
                                 \/ CloseBegin(s) \/ CloseUnbind(s)
           \/ VerifyDone
    PROVE  Inv'
  <1> USE DEF EmptyHanded, Using, Ending, Placed, Removing, Retiring, Verifying
  <1>1. ASSUME NEW t \in Task, NEW to, Goto(t, to), UNCHANGED <<rows, phys, mapped, lease, batch>>,
               \/ batch[t] = {}
               \/ pc[t] \notin Retiring \cup Verifying,
               \/ pc[t] \in EmptyHanded /\ to \in EmptyHanded
               \/ pc[t] = "observe" /\ to = "insert"
               \/ pc[t] = "bind" /\ to = "open"
               \/ pc[t] = "open" /\ to = "closing"
               \/ pc[t] = "unbind" /\ to = "close"
        PROVE  Inv'
    <2>1. pc'[t] = to /\ lease'[t] = lease[t] /\ batch'[t] = batch[t]
      BY <1>1 DEF Goto, Inv, TypeOK
    <2>2. HandsMatch(t)  BY DEF Inv
    <2>3. HandsMatch(t)'
      BY <1>1, <2>1, <2>2 DEF HandsMatch, St, Due, Idle, Registered
    <2>4. batch[t] = {}  BY <1>1 DEF Inv, BatchMatches
    <2>5. BatchMatches(t)'  BY <2>1, <2>4 DEF BatchMatches
    <2>6. QED  BY <1>1, <2>3, <2>5, LocalMove
  <1>2. ASSUME NEW t \in Task, RetireDone(t) PROVE Inv'
    BY <1>1, <1>2 DEF RetireDone, hostVars
  <1>3. ASSUME NEW s \in Session, NEW k \in Key, NEW p \in Purpose, OpenBegin(s, k, p)
        PROVE  Inv'
    BY <1>1, <1>3 DEF OpenBegin, Task
  <1>4. ASSUME NEW s \in Session,
               OpenNoIdle(s) \/ OpenObserved(s) \/ OpenBind(s) \/ CloseBegin(s) \/ CloseUnbind(s)
        PROVE  Inv'
    <2>1. s \in Task  BY DEF Task
    <2>2. CASE OpenNoIdle(s)  BY <1>1, <2>1, <2>2 DEF OpenNoIdle, hostVars
    <2>3. CASE OpenObserved(s)  BY <1>1, <2>1, <2>3 DEF OpenObserved, hostVars
    <2>4. CASE OpenBind(s)  BY <1>1, <2>1, <2>4 DEF OpenBind
    <2>5. CASE CloseBegin(s)  BY <1>1, <2>1, <2>5 DEF CloseBegin, hostVars
    <2>6. CASE CloseUnbind(s)  BY <1>1, <2>1, <2>6 DEF CloseUnbind
    <2>7. QED  BY <1>4, <2>2, <2>3, <2>4, <2>5, <2>6
  <1>5. ASSUME VerifyDone PROVE Inv'
    <2>1. Reclaimer \in Task  BY DEF Task
    <2>2. QED  BY <1>1, <1>5, <2>1 DEF VerifyDone, hostVars
  <1>6. QED  BY <1>2, <1>3, <1>4, <1>5

--------------------------------------------------------------------------------
(* Steps on the connection in a task's own hands.                               *)

\* The task keeps its connection in hand, or lets go of it for good.
OnOwn(t, r, to) ==
    /\ r = lease[t] /\ Goto(t, to) /\ batch' = batch
    /\ lease' \in {lease, [lease EXCEPT ![t] = NoResource]}
    /\ \A o \in Resource \ {r} : Same(o) /\ phys'[o] = phys[o] /\ (o \in mapped' <=> o \in mapped)

LEMMA OwnMove ==
    ASSUME Inv, TypeOK', NEW t \in Task, NEW r \in Resource, NEW to, OnOwn(t, r, to),
           pc[t] \notin EmptyHanded, pc[t] # "parked",
           HandsMatch(t)', BatchMatches(t)', LeavesSound(t, r)
    PROVE  Inv'
  <1>1. OnlyTask(t)  BY DEF OnOwn, OnlyTask, Goto, Inv, TypeOK
  <1>2. Holds(t, r)  BY DEF Holds, OnOwn
  <1>3. \A u \in Task \ {t} : ~Claims(u, r)  BY <1>2 DEF Inv, Exclusive, Claims
  <1>4. \A o \in Resource \ {r} : ~Holds(t, o) /\ ~Holds(t, o)'
    BY DesktopAssumption DEF Holds, OnOwn, Inv, TypeOK
  <1>5. OnlyTouches(t, {r})  BY <1>3, <1>4 DEF OnlyTouches, OnOwn, Claims
  <1>6. QED  BY <1>1, <1>5, Frame

\* What the labels before and after such a step say of batches.
LEMMA OwnBatch ==
    ASSUME Inv, TypeOK', NEW t \in Task, NEW r \in Resource, NEW to, OnOwn(t, r, to),
           pc[t] \notin EmptyHanded, pc[t] # "parked",
           \/ pc[t] \in Retiring /\ to \in Retiring
           \/ pc[t] \in Verifying /\ to \in Verifying
           \/ pc[t] \notin Retiring \cup Verifying
    PROVE  BatchMatches(t)'
  <1>1. BatchMatches(t) /\ Holds(t, r)  BY DEF Inv, Holds, OnOwn
  <1>2. pc'[t] = to /\ batch'[t] = batch[t] /\ batch[t] \subseteq Resource
    BY DEF OnOwn, Goto, Inv, TypeOK
  <1>3. \A o \in batch[t] : o # r /\ ~Holds(t, o)'
    BY <1>1, <1>2, DesktopAssumption DEF BatchMatches, OnOwn, Holds, Inv, TypeOK
  <1>4. \A o \in batch[t] : St(o)' = St(o) /\ (o \in mapped' <=> o \in mapped)
    BY <1>2, <1>3 DEF OnOwn, Same
  <1>5. QED
    BY <1>1, <1>2, <1>3, <1>4 DEF BatchMatches, Retiring, Verifying

\* A driver answers a close, and the ledger is told at once.
LEMMA CloseAnswered ==
    ASSUME Inv, TypeOK', NEW t \in Task, NEW r \in Resource, NEW confirmed \in BOOLEAN, NEW to,
           r = lease[t], DriverClose(r, confirmed), Closed(r, confirmed),
           Goto(t, to), UNCHANGED <<mapped, batch>>,
           IF confirmed THEN to \in Removing /\ lease' = lease
           ELSE \/ to \in EmptyHanded /\ lease' = [lease EXCEPT ![t] = NoResource]
                \/ to = "retain" /\ lease' = lease,
           \/ pc[t] = "retireClose" /\ to \in {"retireRemove", "retire"}
           \/ pc[t] = "verifyClose" /\ to \in {"verifyRemove", "verify"}
           \/ pc[t] = "observeClose" /\ to \in {"openRemove", "retain"}
           \/ pc[t] = "close" /\ to \in {"closeRemove", "closed"}
    PROVE  Inv'
  <1> USE DEF EmptyHanded, Using, Ending, Placed, Removing, Retiring, Verifying
  <1>1. /\ OthersSame(r) /\ ~Idle(r)'
        /\ St(r)' = IF confirmed THEN "Gone" ELSE "Quarantined"
        /\ ~confirmed => ~Due(r)'
    BY ClosedConfirmedRow, ClosedUnconfirmedRow DEF Inv, TypeOK
  <1>2. /\ phys'[r] = IF confirmed THEN "absent" ELSE "unsure"
        /\ \A o \in Resource \ {r} : phys'[o] = phys[o]
    BY DEF DriverClose, Inv, TypeOK
  <1>3. pc'[t] = to /\ (lease'[t] = IF to \in {"retire", "verify", "closed"} THEN NoResource ELSE r)
    BY DEF Goto, Inv, TypeOK
  <1>4. OnOwn(t, r, to)  BY <1>1, <1>2 DEF OnOwn, OthersSame
  <1>5. HandsMatch(t) /\ HandsMatch(t)'
    <2>1. HandsMatch(t)  BY DEF Inv
    <2>2. r # NoResource  BY DesktopAssumption
    <2>3. CASE confirmed
      <3>1. lease'[t] = r /\ pc'[t] \in Removing  BY <1>3, <2>3
      <3>2. St(lease[t])' = "Gone" /\ phys'[lease'[t]] = "absent"
        BY <1>1, <1>2, <2>3, <3>1 DEF St, Registered
      <3>3. QED  BY <2>1, <2>2, <3>1, <3>2 DEF HandsMatch
    <2>4. CASE ~confirmed /\ to = "retain"
      <3>1. lease'[t] = r /\ pc'[t] = "retain"  BY <1>3, <2>4
      <3>2. St(lease[t])' = "Quarantined" /\ ~Due(lease[t])'
        BY <1>1, <2>4, <3>1 DEF St, Registered, Due
      <3>3. QED  BY <2>1, <2>2, <3>1, <3>2 DEF HandsMatch
    <2>5. CASE ~confirmed /\ to # "retain"
      <3>1. lease'[t] = NoResource /\ pc'[t] \in EmptyHanded \ {"parked"}  BY <1>3, <2>5
      <3>2. QED  BY <2>1, <3>1 DEF HandsMatch
    <2>6. QED  BY <2>1, <2>3, <2>4, <2>5
  <1>6. BatchMatches(t)'  BY <1>4, OwnBatch
  <1>7. LeavesSound(t, r)
    <2>1. ~confirmed => r \in mapped \/ Holds(t, r)'
      BY <1>3, <1>5 DEF HandsMatch, Holds
    <2>2. QED  BY <1>1, <1>2, <2>1 DEF LeavesSound
  <1>8. QED  BY <1>4, <1>5, <1>6, <1>7, OwnMove

LEMMA AnswerStep ==
    ASSUME Inv, TypeOK',
           \/ \E t \in Task : RetireAnswer(t)
           \/ \E s \in Session : OpenObserveAnswer(s) \/ CloseAnswer(s)
           \/ VerifyAnswer
    PROVE  Inv'
  <1> USE DEF Removing, EmptyHanded
  <1>1. ASSUME NEW t \in Task, RetireAnswer(t) PROVE Inv'
    <2>1. lease[t] \in Resource  BY <1>1, InHand DEF RetireAnswer
    <2>2. QED  BY <1>1, <2>1, CloseAnswered DEF RetireAnswer
  <1>2. ASSUME NEW s \in Session, OpenObserveAnswer(s) PROVE Inv'
    <2>1. s \in Task /\ lease[s] \in Resource  BY <1>2, InHand DEF OpenObserveAnswer, Task
    <2>2. QED  BY <1>2, <2>1, CloseAnswered DEF OpenObserveAnswer
  <1>3. ASSUME NEW s \in Session, CloseAnswer(s) PROVE Inv'
    <2>1. s \in Task /\ lease[s] \in Resource  BY <1>3, InHand DEF CloseAnswer, Task
    <2>2. QED  BY <1>3, <2>1, CloseAnswered DEF CloseAnswer
  <1>4. ASSUME VerifyAnswer PROVE Inv'
    <2>1. Reclaimer \in Task  BY DEF Task
    <2>2. lease[Reclaimer] \in Resource  BY <1>4, <2>1, InHand DEF VerifyAnswer
    <2>3. QED  BY <1>4, <2>1, <2>2, CloseAnswered DEF VerifyAnswer
  <1>5. QED  BY <1>1, <1>2, <1>3, <1>4

\* The entry of a connection that is gone leaves the table.
LEMMA RemoveStep ==
    ASSUME Inv, TypeOK',
           \/ \E t \in Task : RetireRemove(t)
           \/ \E s \in Session : OpenRemove(s) \/ CloseRemove(s)
           \/ VerifyRemove
    PROVE  Inv'
  <1> USE DEF EmptyHanded, Using, Ending, Placed, Removing, Retiring, Verifying
  <1>1. ASSUME NEW t \in Task, NEW to, Goto(t, to),
               mapped' = mapped \ {lease[t]} /\ lease' = [lease EXCEPT ![t] = NoResource],
               UNCHANGED <<rows, phys, batch>>,
               \/ pc[t] = "retireRemove" /\ to = "retire"
               \/ pc[t] = "verifyRemove" /\ to = "verify"
               \/ pc[t] \in {"openRemove", "closeRemove"} /\ to = "closed"
        PROVE  Inv'
    <2>1. PICK r \in Resource : r = lease[t]  BY <1>1, InHand
    <2>2. OnOwn(t, r, to)  BY <1>1, <2>1, NoRowMoves DEF OnOwn
    <2>3. pc'[t] = to /\ lease'[t] = NoResource  BY <1>1 DEF Goto, Inv, TypeOK
    <2>4. HandsMatch(t)'  BY <1>1, <2>3 DEF HandsMatch
    <2>5. BatchMatches(t)'  BY <1>1, <2>1, <2>2, OwnBatch
    <2>6. St(r)' = "Gone" /\ phys'[r] = "absent" /\ ~Idle(r)'
      <3>1. St(r) = "Gone" /\ phys[r] = "absent"  BY <1>1, <2>1 DEF Inv, HandsMatch
      <3>2. ~Idle(r)  BY <2>1, <3>1 DEF Inv, ResourceMatches
      <3>3. QED  BY <1>1, <3>1, <3>2 DEF St, Idle, Registered
    <2>7. LeavesSound(t, r)  BY <2>6 DEF LeavesSound
    <2>8. QED  BY <1>1, <2>1, <2>2, <2>4, <2>5, <2>7, OwnMove
  <1>2. ASSUME NEW t \in Task, RetireRemove(t) PROVE Inv'
    <2>1. t \in Task  BY DEF Task
    <2>2. /\ pc[t] = "retireRemove" /\ Goto(t, "retire") /\ mapped' = mapped \ {lease[t]}
          /\ lease' = [lease EXCEPT ![t] = NoResource] /\ UNCHANGED <<rows, phys, batch>>
      BY <1>2 DEF RetireRemove
    <2>3. QED  BY <1>1, <2>1, <2>2
  <1>3. ASSUME NEW s \in Session, OpenRemove(s) PROVE Inv'
    <2>1. s \in Task  BY DEF Task
    <2>2. /\ pc[s] = "openRemove" /\ Goto(s, "closed") /\ mapped' = mapped \ {lease[s]}
          /\ lease' = [lease EXCEPT ![s] = NoResource] /\ UNCHANGED <<rows, phys, batch>>
      BY <1>3 DEF OpenRemove, Finish
    <2>3. QED  BY <1>1, <2>1, <2>2
  <1>4. ASSUME NEW s \in Session, CloseRemove(s) PROVE Inv'
    <2>1. s \in Task  BY DEF Task
    <2>2. /\ pc[s] = "closeRemove" /\ Goto(s, "closed") /\ mapped' = mapped \ {lease[s]}
          /\ lease' = [lease EXCEPT ![s] = NoResource] /\ UNCHANGED <<rows, phys, batch>>
      BY <1>4 DEF CloseRemove, Finish
    <2>3. QED  BY <1>1, <2>1, <2>2
  <1>5. ASSUME VerifyRemove PROVE Inv'
    <2>1. Reclaimer \in Task  BY DEF Task
    <2>2. /\ pc[Reclaimer] = "verifyRemove" /\ Goto(Reclaimer, "verify") /\ mapped' = mapped \ {lease[Reclaimer]}
          /\ lease' = [lease EXCEPT ![Reclaimer] = NoResource] /\ UNCHANGED <<rows, phys, batch>>
      BY <1>5 DEF VerifyRemove
    <2>3. QED  BY <1>1, <2>1, <2>2
  <1>6. QED  BY <1>2, <1>3, <1>4, <1>5

\* The other steps a session takes on its own connection.
LEMMA OwnStep ==
    ASSUME Inv, TypeOK', NEW s \in Session,
           \/ OpenLookup(s) \/ OpenRefusedAnswer(s) \/ OpenObserveFails(s) \/ OpenRetain(s)
           \/ OpenInsert(s) \/ Execute(s) \/ CloseUnresolved(s) \/ CloseReset(s)
    PROVE  Inv'
  <1> USE DEF EmptyHanded, Using, Ending, Placed, Removing, Retiring, Verifying
  <1>0. s \in Task  BY DEF Task
  <1>1. PICK r \in Resource : r = lease[s]
    BY <1>0, InHand DEF OpenLookup, OpenRefusedAnswer, OpenObserveFails, OpenRetain,
       OpenInsert,
                        Execute, CloseUnresolved, CloseReset
  <1>2. /\ HandsMatch(s) /\ BatchMatches(s) /\ r # NoResource
        /\ St(r) # "Gone" => phys[r] # "absent"
    BY <1>0, DesktopAssumption DEF Inv, ResourceMatches
  <1>3. CASE OpenLookup(s)
    <2>1. Goto(s, "observe") /\ lease' = lease /\ UNCHANGED <<rows, phys, mapped, batch>>
      BY <1>0, <1>1, <1>2, <1>3 DEF OpenLookup, HandsMatch
    <2>2. OnOwn(s, r, "observe")  BY <1>1, <2>1, NoRowMoves DEF OnOwn
    <2>3. pc'[s] = "observe" /\ lease'[s] = r  BY <1>0, <1>1, <2>1 DEF Goto, Inv, TypeOK
    <2>4. /\ St(r)' \in {"Acquired", "InUse"} /\ phys'[r] = "open" /\ ~Idle(r)'
      BY <1>1, <1>2, <1>3, <2>1 DEF OpenLookup, HandsMatch, St, Idle, Registered
    <2>5. HandsMatch(s)'
      BY <1>2, <2>3, <2>4 DEF HandsMatch, St, Idle, Due, Registered
    <2>6. BatchMatches(s)'  BY <1>0, <1>3, <2>2, OwnBatch DEF OpenLookup
    <2>7. LeavesSound(s, r)  BY <2>3, <2>4 DEF LeavesSound, Holds
    <2>8. QED  BY <1>0, <1>3, <2>2, <2>5, <2>6, <2>7, OwnMove DEF OpenLookup
  <1>4. CASE OpenRefusedAnswer(s)
    <2>1. PICK confirmed \in BOOLEAN :
             /\ DriverClose(r, confirmed)
             /\ mapped' = IF confirmed THEN mapped ELSE mapped \cup {r}
      BY <1>1, <1>4 DEF OpenRefusedAnswer
    <2>2. /\ phys'[r] = IF confirmed THEN "absent" ELSE "unsure"
          /\ \A o \in Resource \ {r} : phys'[o] = phys[o]
      BY <2>1 DEF DriverClose, Inv, TypeOK
    <2>3. OnOwn(s, r, "closed")
      BY <1>1, <1>4, <2>1, <2>2, NoRowMoves DEF OnOwn, OpenRefusedAnswer, Finish
    <2>4. pc'[s] = "closed" /\ lease'[s] = NoResource
      BY <1>0, <1>4 DEF OpenRefusedAnswer, Finish, Goto, Inv, TypeOK
    <2>5. HandsMatch(s)'  BY <2>4 DEF HandsMatch
    <2>6. BatchMatches(s)'  BY <1>0, <1>4, <2>3, OwnBatch DEF OpenRefusedAnswer
    <2>7. St(r)' = "Gone" /\ ~Idle(r)'
      <3>1. St(r) = "Gone"  BY <1>1, <1>2, <1>4 DEF OpenRefusedAnswer, HandsMatch
      <3>2. ~Idle(r)  BY <3>1 DEF Inv, ResourceMatches
      <3>3. QED  BY <1>4, <3>1, <3>2 DEF OpenRefusedAnswer, St, Idle, Registered
    <2>8. LeavesSound(s, r)  BY <2>1, <2>2, <2>7 DEF LeavesSound
    <2>9. QED  BY <1>0, <1>4, <2>3, <2>5, <2>6, <2>8, OwnMove DEF OpenRefusedAnswer
  <1>5. CASE OpenObserveFails(s) \/ CloseUnresolved(s)
    <2> DEFINE to == IF pc[s] = "observe" THEN "observeClose" ELSE "close"
    <2>1. /\ pc[s] \in {"observe", "closing"} /\ Goto(s, to) /\ Returning(r, FALSE, TRUE)
          /\ UNCHANGED <<lease, batch, phys, mapped>>
      BY <1>1, <1>5 DEF OpenObserveFails, CloseUnresolved, hostVars
    <2>2. /\ St(r) \in {"Acquired", "InUse"} /\ ~Idle(r) /\ phys[r] = "open"
          /\ pc[s] = "closing" => r \in mapped
      BY <1>1, <1>2, <2>1 DEF HandsMatch
    <2>3. /\ OthersSame(r) /\ St(r)' = "Closing" /\ ~Idle(r)'
      BY <2>1, <2>2, ReturningRow DEF Inv, TypeOK, ReturnParks
    <2>4. OnOwn(s, r, to)  BY <1>1, <2>1, <2>3 DEF OnOwn, OthersSame
    <2>5. pc'[s] = to /\ lease'[s] = r  BY <1>0, <1>1, <2>1 DEF Goto, Inv, TypeOK
    <2>6. HandsMatch(s)'
      <3>1. St(lease[s])' = "Closing"  BY <2>3, <2>5 DEF St, Registered
      <3>2. QED  BY <1>2, <2>1, <2>2, <2>5, <3>1 DEF HandsMatch
    <2>7. BatchMatches(s)'  BY <1>0, <2>1, <2>4, OwnBatch
    <2>8. Holds(s, r)'  BY <2>5 DEF Holds
    <2>9. LeavesSound(s, r)  BY <2>1, <2>2, <2>3, <2>8 DEF LeavesSound
    <2>10. QED  BY <1>0, <2>1, <2>4, <2>6, <2>7, <2>9, OwnMove
  <1>6. CASE OpenRetain(s)
    <2>1. mapped' = mapped \cup {r}  BY <1>1, <1>6 DEF OpenRetain
    <2>2. OnOwn(s, r, "closed")
      BY <1>1, <1>6, <2>1, NoRowMoves DEF OnOwn, OpenRetain, Finish
    <2>3. pc'[s] = "closed" /\ lease'[s] = NoResource
      BY <1>0, <1>6 DEF OpenRetain, Finish, Goto, Inv, TypeOK
    <2>4. HandsMatch(s)'  BY <2>3 DEF HandsMatch
    <2>5. BatchMatches(s)'  BY <1>0, <1>6, <2>2, OwnBatch DEF OpenRetain
    <2>6. St(r)' # "Gone" /\ ~Idle(r)' /\ phys'[r] # "absent"
      <3>1. St(r) = "Quarantined"  BY <1>1, <1>2, <1>6 DEF OpenRetain, HandsMatch
      <3>2. ~Idle(r)  BY <3>1 DEF Inv, ResourceMatches
      <3>3. QED  BY <1>2, <1>6, <3>1, <3>2 DEF OpenRetain, St, Idle, Registered
    <2>7. LeavesSound(s, r)  BY <2>1, <2>6 DEF LeavesSound
    <2>8. QED  BY <1>0, <1>6, <2>2, <2>4, <2>5, <2>7, OwnMove DEF OpenRetain
  <1>7. CASE OpenInsert(s)
    <2>1. mapped' = mapped \cup {r} /\ UNCHANGED <<rows, phys, lease>> /\ Goto(s, "bind")
      BY <1>1, <1>7 DEF OpenInsert
    <2>2. OnOwn(s, r, "bind")  BY <1>1, <1>7, <2>1, NoRowMoves DEF OnOwn, OpenInsert
    <2>3. pc'[s] = "bind" /\ lease'[s] = r  BY <1>0, <1>1, <2>1 DEF Goto, Inv, TypeOK
    <2>4. /\ St(r)' \in {"Acquired", "InUse"} /\ phys'[r] = "open" /\ ~Idle(r)'
      BY <1>1, <1>2, <1>7, <2>1 DEF OpenInsert, HandsMatch, St, Idle, Registered
    <2>5. HandsMatch(s)'
      BY <1>2, <2>1, <2>3, <2>4 DEF HandsMatch, St, Idle, Due, Registered
    <2>6. BatchMatches(s)'  BY <1>0, <1>7, <2>2, OwnBatch DEF OpenInsert
    <2>7. LeavesSound(s, r)  BY <2>1, <2>4 DEF LeavesSound
    <2>8. QED  BY <1>0, <1>7, <2>2, <2>5, <2>6, <2>7, OwnMove DEF OpenInsert
  <1>8. CASE Execute(s)
    <2>1. /\ pc[s] = "open" /\ r \in mapped /\ Executing(r)
          /\ UNCHANGED <<pc, batch, lease, phys, mapped>>
      BY <1>1, <1>8 DEF Execute, hostVars, taskVars
    <2>2. Goto(s, "open")  BY <1>0, <2>1 DEF Goto, Inv, TypeOK
    <2>3. St(r)' = "InUse" /\ Idle(r)' = Idle(r) /\ OthersSame(r)
      BY <2>1, ExecutingRow DEF Inv, TypeOK
    <2>4. ~Idle(r)' /\ phys'[r] = "open"  BY <1>1, <1>2, <2>1, <2>3 DEF HandsMatch
    <2>5. OnOwn(s, r, "open")  BY <1>1, <2>1, <2>2, <2>3 DEF OnOwn, OthersSame
    <2>6. HandsMatch(s)'
      BY <1>1, <1>2, <2>1, <2>3, <2>4 DEF HandsMatch, St, Idle, Due, Registered
    <2>7. BatchMatches(s)'  BY <1>0, <2>1, <2>5, OwnBatch
    <2>8. LeavesSound(s, r)  BY <2>1, <2>4 DEF LeavesSound
    <2>9. QED  BY <1>0, <2>1, <2>5, <2>6, <2>7, <2>8, OwnMove
  <1>9. CASE CloseReset(s)
    <2>1. PICK clean \in BOOLEAN, admits \in BOOLEAN :
             /\ Returning(r, clean, admits)
             /\ Goto(s, IF ReturnParks(r, clean, admits) THEN "parked" ELSE "unbind")
      BY <1>1, <1>9 DEF CloseReset
    <2>2. pc[s] = "closing" /\ UNCHANGED <<phys, mapped, batch, lease>>
      BY <1>9 DEF CloseReset, hostVars
    <2>3. /\ St(r) \in {"Acquired", "InUse"} /\ ~Idle(r) /\ phys[r] = "open" /\ r \in mapped
      BY <1>1, <1>2, <2>2 DEF HandsMatch
    <2> DEFINE to == IF ReturnParks(r, clean, admits) THEN "parked" ELSE "unbind"
    <2>4. /\ OthersSame(r)
          /\ IF ReturnParks(r, clean, admits) THEN St(r)' = "Acquired"
             ELSE St(r)' = "Closing" /\ ~Idle(r)'
      BY <2>1, <2>3, ReturningRow DEF Inv, TypeOK
    <2>5. OnOwn(s, r, to)  BY <1>1, <2>1, <2>2, <2>4 DEF OnOwn, OthersSame
    <2>6. pc'[s] = to /\ lease'[s] = r  BY <1>0, <1>1, <2>1, <2>2 DEF Goto, Inv, TypeOK
    <2>7. HandsMatch(s)'
      <3>1. to = "unbind" => St(lease[s])' = "Closing"  BY <2>4, <2>6 DEF St, Registered
      <3>2. QED  BY <1>2, <2>2, <2>3, <2>6, <3>1 DEF HandsMatch
    <2>8. BatchMatches(s)'  BY <1>0, <2>2, <2>5, OwnBatch
    <2>9. LeavesSound(s, r)
      <3>1. r \notin batch'[s]  BY <1>1, <1>2, <2>2 DEF BatchMatches, Holds
      <3>2. to = "parked" => ~Claims(s, r)'  BY <2>6, <3>1 DEF Claims, Holds
      <3>3. to = "unbind" => Holds(s, r)'  BY <2>6 DEF Holds
      <3>4. QED  BY <2>2, <2>3, <2>4, <3>2, <3>3 DEF LeavesSound
    <2>10. QED  BY <1>0, <2>2, <2>5, <2>7, <2>8, <2>9, OwnMove
  <1>10. QED  BY <1>3, <1>4, <1>5, <1>6, <1>7, <1>8, <1>9

--------------------------------------------------------------------------------
(* Steps that change which connections a task claims.                           *)

\* A call ends with nothing in hand.
LEMMA LetGoStep ==
    ASSUME Inv, TypeOK', NEW s \in Session, OpenAbandon(s) \/ CloseParked(s)
    PROVE  Inv'
  <1> USE DEF EmptyHanded, Using, Ending, Placed, Removing, Retiring, Verifying
  <1>0. s \in Task  BY DEF Task
  <1>1. /\ pc[s] \in {"plan", "acquire", "parked"} /\ UNCHANGED <<rows, phys, mapped, batch>>
        /\ Goto(s, "closed") /\ lease' = [lease EXCEPT ![s] = NoResource]
    BY DEF OpenAbandon, CloseParked, Finish
  <1>2. pc'[s] = "closed" /\ lease'[s] = NoResource  BY <1>0, <1>1 DEF Goto, Inv, TypeOK
  <1>3. OnlyTask(s)  BY <1>1 DEF OnlyTask, Goto, Inv, TypeOK
  <1>4. HandsMatch(s) /\ BatchMatches(s)  BY <1>0 DEF Inv
  <1>5. \A o \in Resource : ~Holds(s, o)
    BY <1>1, <1>4, DesktopAssumption DEF HandsMatch, Holds
  <1>6. batch[s] = {}  BY <1>1, <1>4 DEF BatchMatches
  <1>7. batch'[s] = {}  BY <1>1, <1>6
  <1>8. \A o \in Resource : ~Holds(s, o)'  BY <1>2, DesktopAssumption DEF Holds
  <1>9. OnlyTouches(s, {})  BY <1>1, <1>5, <1>7, <1>8, NoRowMoves DEF OnlyTouches, Claims
  <1>10. HandsMatch(s)'  BY <1>2 DEF HandsMatch
  <1>11. BatchMatches(s)'  BY <1>7 DEF BatchMatches
  <1>12. QED  BY <1>0, <1>3, <1>9, <1>10, <1>11, Frame

\* A task takes a connection off its list, into its hands if there is something to do.
LEMMA TakeNextStep ==
    ASSUME Inv, TypeOK', (\E t \in Task : RetireNext(t)) \/ VerifyNext
    PROVE  Inv'
  <1> USE DEF EmptyHanded, Using, Ending, Placed, Removing, Retiring, Verifying
  <1>1. ASSUME NEW t \in Task, NEW r \in batch[t], NEW to,
               batch' = [batch EXCEPT ![t] = @ \ {r}] /\ UNCHANGED <<phys, mapped>>,
               \A o \in Resource : Same(o),
               \/ pc[t] = "retire" /\ to = "retireClose"
               \/ pc[t] = "verify" /\ to = "verifyClose",
               \/ r \in mapped /\ lease' = [lease EXCEPT ![t] = r] /\ Goto(t, to)
               \/ lease' = lease /\ pc' = pc
        PROVE  Inv'
    <2>1. /\ HandsMatch(t) /\ BatchMatches(t) /\ lease[t] = NoResource
          /\ r \in Resource /\ batch[t] \subseteq Resource
      BY <1>1 DEF Inv, HandsMatch, TypeOK
    <2>2. OnlyTask(t)  BY <1>1 DEF OnlyTask, Goto, Inv, TypeOK
    <2>3. batch'[t] = batch[t] \ {r}  BY <1>1 DEF Inv, TypeOK
    <2>4. \/ r \in mapped /\ lease'[t] = r /\ pc'[t] = to
          \/ lease'[t] = NoResource /\ pc'[t] = pc[t]
      BY <1>1, <2>1 DEF Goto, Inv, TypeOK
    <2>5. \A o \in Resource : ~Holds(t, o)  BY <2>1, DesktopAssumption DEF Holds
    <2>6. \A o \in Resource \ {r} : ~Holds(t, o)'  BY <2>4, DesktopAssumption DEF Holds
    <2>7. \A u \in Task \ {t} : ~Claims(u, r)  BY <1>1, <2>1 DEF Inv, Exclusive, Claims
    <2>8. OnlyTouches(t, {r})
      BY <1>1, <2>3, <2>5, <2>6, <2>7 DEF OnlyTouches, Claims
    <2>9. /\ St(r)' = St(r) /\ (Idle(r)' <=> Idle(r)) /\ phys'[r] = phys[r]
          /\ r \in mapped' <=> r \in mapped
      BY <1>1, <2>1 DEF Same
    <2>10. HandsMatch(t)'
      <3>1. CASE lease'[t] = r /\ r \in mapped /\ pc'[t] = to
        <4>1. St(lease[t])' = IF to = "retireClose" THEN "Closing" ELSE "Quarantined"
          BY <1>1, <2>1, <2>9, <3>1 DEF BatchMatches, St, Registered
        <4>2. r \in mapped' /\ r # NoResource  BY <2>1, <2>9, <3>1, DesktopAssumption
        <4>3. QED  BY <1>1, <3>1, <4>1, <4>2 DEF HandsMatch
      <3>2. CASE lease'[t] = NoResource /\ pc'[t] = pc[t]
        BY <1>1, <3>2 DEF HandsMatch
      <3>3. QED  BY <2>4, <3>1, <3>2
    <2>11. BatchMatches(t)'
      <3>1. ASSUME NEW o \in batch'[t]
            PROVE  /\ ~Holds(t, o)'
                   /\ \/ pc'[t] \in Retiring /\ St(o)' = "Closing" /\ o \in mapped'
                      \/ pc'[t] \in Verifying /\ St(o)' = "Quarantined"
        <4>1. o \in batch[t] /\ o \in Resource /\ o # r  BY <2>1, <2>3, <3>1
        <4>2. ~Holds(t, o)'  BY <2>6, <4>1
        <4>3. St(o)' = St(o) /\ (o \in mapped' <=> o \in mapped)  BY <1>1, <4>1 DEF Same
        <4>4. QED  BY <1>1, <2>1, <2>4, <4>1, <4>2, <4>3 DEF BatchMatches
      <3>2. QED  BY <3>1 DEF BatchMatches
    <2>12. LeavesSound(t, r)
      <3>1. ~Idle(r) /\ (St(r) # "Gone" => phys[r] # "absent")
        BY <1>1, <2>1 DEF Inv, ResourceMatches, Claims
      <3>2. phys[r] # "absent" => r \in mapped
        BY <2>1, <2>5, <2>7 DEF Inv, ResourceMatches, Claims
      <3>3. QED  BY <2>9, <3>1, <3>2 DEF LeavesSound
    <2>13. QED  BY <2>1, <2>2, <2>8, <2>10, <2>11, <2>12, Frame
  <1>2. ASSUME NEW t \in Task, RetireNext(t) PROVE Inv'
    <2>1. PICK r \in batch[t] :
             /\ batch' = [batch EXCEPT ![t] = @ \ {r}]
             /\ IF r \in mapped /\ Registered(r)
                THEN /\ Returning(r, FALSE, TRUE)
                     /\ lease' = [lease EXCEPT ![t] = r]
                     /\ Goto(t, "retireClose")
                ELSE UNCHANGED <<rows, pools, lease, pc>>
      BY <1>2 DEF RetireNext
    <2>2. pc[t] = "retire" /\ UNCHANGED <<phys, mapped>>  BY <1>2 DEF RetireNext, hostVars
    <2>3. r \in Resource  BY DEF Inv, TypeOK
    <2>4. St(r) = "Closing"  BY <2>2 DEF Inv, BatchMatches
    <2>5. \A o \in Resource : Same(o)
      <3>1. CASE Returning(r, FALSE, TRUE)
        <4>1. /\ OthersSame(r) /\ St(r)' = St(r) /\ (Idle(r)' <=> Idle(r))
              /\ Due(r)' => Due(r)
          BY <2>3, <2>4, <3>1, ReturningRow DEF Inv, TypeOK, ReturnParks
        <4>2. QED  BY <4>1 DEF OthersSame, Same
      <3>2. CASE UNCHANGED rows  BY <3>2, NoRowMoves
      <3>3. QED  BY <2>1, <3>1, <3>2
    <2>6. QED  BY <1>1, <2>1, <2>2, <2>5
  <1>3. ASSUME VerifyNext PROVE Inv'
    <2>0. Reclaimer \in Task  BY DEF Task
    <2>1. PICK r \in batch[Reclaimer] :
             /\ batch' = [batch EXCEPT ![Reclaimer] = @ \ {r}]
             /\ IF r \in mapped
                THEN lease' = [lease EXCEPT ![Reclaimer] = r] /\ Goto(Reclaimer, "verifyClose")
                ELSE UNCHANGED <<lease, pc>>
      BY <1>3 DEF VerifyNext
    <2>2. pc[Reclaimer] = "verify" /\ UNCHANGED <<rows, phys, mapped>>
      BY <1>3 DEF VerifyNext, hostVars
    <2>3. QED  BY <1>1, <2>0, <2>1, <2>2, NoRowMoves
  <1>4. QED  BY <1>2, <1>3

\* A connection nobody claims comes into the hands of an opening session.
LEMMA TakeStep ==
    ASSUME Inv, TypeOK', NEW s \in Session, OpenClaim(s) \/ OpenAcquire(s)
    PROVE  Inv'
  <1> USE DEF EmptyHanded, Using, Ending, Placed, Removing, Retiring, Verifying
  <1>0. s \in Task  BY DEF Task
  <1>1. ASSUME NEW r \in Resource, NEW to \in {"lookup", "observe", "refusedClose"},
               pc[s] \in {"claim", "acquire"} /\ Goto(s, to) /\ OthersSame(r),
               lease' = [lease EXCEPT ![s] = r] /\ UNCHANGED <<mapped, batch>>,
               \A u \in Task : ~Claims(u, r),
               phys'[r] = "open" /\ \A o \in Resource \ {r} : phys'[o] = phys[o],
               /\ ~Idle(r)' /\ (to = "lookup" => r \in mapped)
               /\ IF to = "refusedClose" THEN St(r)' = "Gone" ELSE St(r)' \in {"Acquired", "InUse"}
        PROVE  Inv'
    <2>1. pc'[s] = to /\ lease'[s] = r /\ batch'[s] = batch[s]
      BY <1>0, <1>1 DEF Goto, Inv, TypeOK
    <2>2. HandsMatch(s) /\ BatchMatches(s) /\ r # NoResource
      BY <1>0, DesktopAssumption DEF Inv
    <2>3. OnlyTask(s)  BY <1>0, <1>1 DEF OnlyTask, Goto, Inv, TypeOK
    <2>4. batch[s] = {}  BY <1>1, <2>2 DEF BatchMatches
    <2>5. \A o \in Resource \ {r} : ~Holds(s, o) /\ ~Holds(s, o)'
      BY <1>1, <2>1, <2>2, DesktopAssumption DEF HandsMatch, Holds
    <2>6. OnlyTouches(s, {r})
      BY <1>1, <2>1, <2>5 DEF OnlyTouches, OthersSame, Claims
    <2>7. HandsMatch(s)'
      <3>1. IF to = "refusedClose" THEN St(lease[s])' = "Gone"
            ELSE St(lease[s])' \in {"Acquired", "InUse"}
        BY <1>1, <2>1 DEF St, Registered
      <3>2. ~Idle(lease[s])' /\ phys'[lease'[s]] = "open"  BY <1>1, <2>1 DEF Idle, Registered
      <3>3. to = "lookup" => lease'[s] \in mapped'  BY <1>1, <2>1
      <3>4. QED  BY <2>1, <2>2, <3>1, <3>2, <3>3 DEF HandsMatch
    <2>8. BatchMatches(s)'  BY <2>1, <2>4 DEF BatchMatches
    <2>9. Holds(s, r)'  BY <2>1 DEF Holds
    <2>10. LeavesSound(s, r)  BY <1>1, <2>9 DEF LeavesSound
    <2>11. QED  BY <1>0, <2>3, <2>6, <2>7, <2>8, <2>10, Frame
  <1>2. CASE OpenClaim(s)
    <2>1. request[s].key \in Key  BY DEF Inv, TypeOK
    <2>2. PICK r \in Claimable(request[s].key) :
             ClaimIdle(request[s].key, r) /\ lease' = [lease EXCEPT ![s] = r]
      BY <1>2 DEF OpenClaim
    <2>3. r \in Resource  BY DEF Claimable
    <2>4. Idle(r) /\ St(r)' = "InUse" /\ ~Idle(r)' /\ OthersSame(r)
      BY <2>1, <2>2, <2>3, ClaimIdleRow DEF Inv, TypeOK
    <2>5. phys[r] = "open" /\ r \in mapped /\ \A u \in Task : ~Claims(u, r)
      BY <2>3, <2>4 DEF Inv, ResourceMatches
    <2>6. pc[s] = "claim" /\ Goto(s, "lookup") /\ UNCHANGED <<phys, mapped, batch>>
      BY <1>2 DEF OpenClaim, hostVars
    <2>7. QED  BY <1>1, <2>2, <2>3, <2>4, <2>5, <2>6
  <1>3. CASE OpenAcquire(s)
    <2>1. PICK r \in Resource :
             /\ Fresh(r)
             /\ phys'  = [phys EXCEPT ![r] = "open"]
             /\ lease' = [lease EXCEPT ![s] = r]
             /\ IF DeclareAccepts(request[s].key, PolicyOf(request[s]))
                THEN /\ Opened(r, request[s].key, request[s].purpose, PolicyOf(request[s]))
                     /\ Goto(s, "observe")
                ELSE /\ UNCHANGED <<rows, pools>>
                     /\ Goto(s, "refusedClose")
      BY <1>3 DEF OpenAcquire
    <2>2. pc[s] = "acquire" /\ UNCHANGED <<mapped, batch>>  BY <1>3 DEF OpenAcquire
    <2>3. phys'[r] = "open" /\ \A o \in Resource \ {r} : phys'[o] = phys[o]
      BY <2>1 DEF Inv, TypeOK
    <2>4. \A u \in Task : ~Claims(u, r)  BY <2>1 DEF Fresh, Claims, Holds
    <2>5. CASE /\ Opened(r, request[s].key, request[s].purpose, PolicyOf(request[s]))
               /\ Goto(s, "observe")
      <3>1. request[s].key \in Key /\ request[s].purpose \in Purpose  BY DEF Inv, TypeOK
      <3>2. PolicyOf(request[s]) \in Policy  BY DEF PolicyOf, Policy
      <3>3. St(r)' = "Acquired" /\ ~Idle(r)' /\ OthersSame(r)
        BY <2>5, <3>1, <3>2, OpenedRow DEF Inv, TypeOK
      <3>4. QED  BY <1>1, <2>1, <2>2, <2>3, <2>4, <2>5, <3>3
    <2>6. CASE UNCHANGED rows /\ Goto(s, "refusedClose")
      <3>1. OthersSame(r)  BY <2>6, NoRowMoves DEF OthersSame
      <3>2. St(r)' = "Gone" /\ ~Idle(r)'  BY <2>1, <2>6 DEF Fresh, St, Idle, Registered
      <3>3. QED  BY <1>1, <2>1, <2>2, <2>3, <2>4, <2>6, <3>1, <3>2
    <2>7. QED  BY <2>1, <2>5, <2>6
  <1>4. QED  BY <1>2, <1>3

\* Idle leases go on the list of the task that retires them.
LEMMA RetirePlanStep ==
    ASSUME Inv, TypeOK', (\E s \in Session : OpenPlan(s)) \/ Sweep
    PROVE  Inv'
  <1> USE DEF EmptyHanded, Using, Ending, Placed, Removing, Retiring, Verifying
  <1>1. ASSUME NEW t \in Task, NEW k, IdleToRetire(k), Goto(t, "retire"),
               batch' = [batch EXCEPT ![t] = RetireBatch(k)],
               UNCHANGED <<phys, mapped, lease>>, pc[t] \in {"plan", "idle"}
        PROVE  Inv'
    <2> DEFINE R == RetireBatch(k)
    <2>1. pc'[t] = "retire" /\ lease'[t] = NoResource /\ batch'[t] = R
      BY <1>1 DEF Goto, Inv, TypeOK, HandsMatch
    <2>2. OnlyTask(t)  BY <1>1 DEF OnlyTask, Goto, Inv, TypeOK
    <2>3. R \in SUBSET Resource  BY DEF RetireBatch
    <2>4. ASSUME NEW r \in R
          PROVE  /\ r \in Resource /\ \A u \in Task : ~Claims(u, r)
                 /\ St(r)' = "Closing" /\ ~Idle(r)' /\ phys[r] = "open" /\ r \in mapped
      BY <1>1, <2>3, IdleToRetireRows DEF Inv, TypeOK, ResourceMatches
    <2>5. \A o \in Resource \ R : Same(o)  BY <1>1, IdleToRetireRows DEF Inv, TypeOK
    <2>6. \A o \in Resource : ~Holds(t, o) /\ ~Holds(t, o)'
      BY <1>1, <2>1, DesktopAssumption DEF Holds
    <2>7. OnlyTouches(t, R)
      BY <1>1, <2>1, <2>4, <2>5, <2>6 DEF OnlyTouches, Claims
    <2>8. HandsMatch(t)'  BY <2>1 DEF HandsMatch
    <2>9. BatchMatches(t)'
      <3>1. ASSUME NEW r \in batch'[t]
            PROVE  ~Holds(t, r)' /\ St(r)' = "Closing" /\ r \in mapped'
        BY <1>1, <2>1, <2>4, <2>6
      <3>2. QED  BY <2>1, <3>1 DEF BatchMatches
    <2>10. \A r \in R : LeavesSound(t, r)  BY <1>1, <2>4 DEF LeavesSound
    <2>11. QED  BY <2>2, <2>3, <2>7, <2>8, <2>9, <2>10, Frame
  <1>2. ASSUME NEW s \in Session, OpenPlan(s) PROVE Inv'
    BY <1>1, <1>2 DEF OpenPlan, hostVars, Task
  <1>3. CASE Sweep
    <2>1. Reclaimer \in Task  BY DEF Task
    <2>2. QED  BY <1>1, <1>3, <2>1 DEF Sweep, hostVars
  <1>4. QED  BY <1>2, <1>3

\* Quarantined leases that are due go on the reclaimer's list: nobody else can have one.
LEMMA VerifyPlanStep ==
    ASSUME Inv, TypeOK', VerifyPlan
    PROVE  Inv'
  <1> USE DEF EmptyHanded, Using, Ending, Placed, Removing, Retiring, Verifying
  <1> DEFINE t == Reclaimer
             R == VerifyBatch
  <1>1. t \in Task  BY DEF Task
  <1>2. /\ pc[t] = "verifyPlan" /\ QuarantineToVerify /\ Goto(t, "verify")
        /\ batch' = [batch EXCEPT ![t] = R] /\ UNCHANGED <<phys, mapped, lease>>
    BY DEF VerifyPlan, hostVars
  <1>3. pc'[t] = "verify" /\ lease'[t] = NoResource /\ batch'[t] = R
    BY <1>1, <1>2 DEF Goto, Inv, TypeOK, HandsMatch
  <1>4. OnlyTask(t)  BY <1>1, <1>2 DEF OnlyTask, Goto, Inv, TypeOK
  <1>5. /\ \A r \in R : r \in Resource /\ St(r) = "Quarantined" /\ Due(r)
        /\ \A o \in Resource : Same(o)
    BY <1>2, QuarantineToVerifyRows DEF Inv, TypeOK
  <1>6. \A o \in Resource : ~Holds(t, o) /\ ~Holds(t, o)'
    BY <1>2, <1>3, DesktopAssumption DEF Holds
  <1>7. ASSUME NEW u \in Task \ {t}, NEW r \in R PROVE ~Claims(u, r)
    <2>1. pc[u] \in SessionLabel /\ HandsMatch(u) /\ BatchMatches(u)  BY DEF Inv, TypeOK
    <2>2. St(r) = "Quarantined" /\ Due(r) /\ r # NoResource  BY <1>5, DesktopAssumption
    <2>3. ~Holds(u, r)
      <3> SUFFICES ASSUME lease[u] = r, pc[u] # "parked" PROVE FALSE
        BY DEF Holds
      <3>1. pc[u] \notin Using \cup Ending \cup Removing \cup {"refusedClose", "retain"}
        BY <2>1, <2>2 DEF HandsMatch
      <3>2. pc[u] \notin EmptyHanded  BY <2>1, <2>2 DEF HandsMatch
      <3>3. QED  BY <2>1, <3>1, <3>2 DEF SessionLabel
    <2>4. r \notin batch[u]  BY <2>1, <2>2 DEF BatchMatches, SessionLabel
    <2>5. QED  BY <2>3, <2>4 DEF Claims
  <1>8. OnlyTouches(t, R)
    BY <1>2, <1>3, <1>5, <1>6, <1>7 DEF OnlyTouches, Claims
  <1>9. HandsMatch(t)'  BY <1>3 DEF HandsMatch
  <1>10. \A r \in R : St(r)' = "Quarantined"  BY <1>5 DEF Same
  <1>11. BatchMatches(t)'
    <2>1. ASSUME NEW r \in batch'[t] PROVE ~Holds(t, r)' /\ St(r)' = "Quarantined"
      BY <1>3, <1>5, <1>6, <1>10
    <2>2. QED  BY <1>3, <2>1 DEF BatchMatches
  <1>12. ASSUME NEW r \in R PROVE LeavesSound(t, r)
    <2>1. \A u \in Task : ~Holds(u, r)  BY <1>5, <1>6, <1>7 DEF Claims
    <2>2. /\ ~Idle(r) /\ phys[r] # "absent" /\ r \in mapped
      BY <1>5, <2>1 DEF Inv, ResourceMatches
    <2>3. ~Idle(r)'  BY <1>5, <2>2 DEF Same
    <2>4. QED  BY <1>2, <2>2, <2>3 DEF LeavesSound
  <1>13. QED  BY <1>1, <1>4, <1>5, <1>8, <1>9, <1>11, <1>12, Frame

\* Clocks only run down on connections no task has in hand.
LEMMA ElapseStep ==
    ASSUME Inv, TypeOK', NEW r \in Resource, Elapse(r)
    PROVE  Inv'
  <1>1. \A o \in Resource : St(o)' = St(o) /\ (Idle(o)' <=> Idle(o))
    BY ClockRow DEF Elapse, OthersSame, Same, Inv, TypeOK
  <1>2. \A o \in Resource \ {r} : Due(o)' => Due(o)
    BY ClockRow DEF Elapse, OthersSame, Same, Inv, TypeOK
  <1>3. UNCHANGED <<phys, mapped, pc, lease, batch>> /\ \A t \in Task : lease[t] # r
    BY DEF Elapse, hostVars, taskVars
  <1>4. \A t \in Task, o \in Resource : /\ Holds(t, o)' <=> Holds(t, o)
                                        /\ Claims(t, o)' <=> Claims(t, o)
    BY <1>3 DEF Holds, Claims
  <1>5. ASSUME NEW t \in Task PROVE HandsMatch(t)'
    <2>1. HandsMatch(t)  BY DEF Inv
    <2>2. CASE pc[t] \in EmptyHanded \cup {"parked"}
      BY <1>3, <2>1, <2>2 DEF HandsMatch, EmptyHanded, Using, Ending, Placed, Removing
    <2>3. CASE pc[t] \notin EmptyHanded \cup {"parked"}
      <3>1. lease[t] \in Resource \ {r}  BY <1>3, <2>3, InHand
      <3>2. /\ St(lease[t])' = St(lease[t]) /\ (Idle(lease[t])' <=> Idle(lease[t]))
            /\ Due(lease[t])' => Due(lease[t])
        BY <1>1, <1>2, <1>3, <3>1 DEF St, Idle, Due, Registered
      <3>3. QED  BY <1>3, <2>1, <3>2 DEF HandsMatch
    <2>4. QED  BY <2>2, <2>3
  <1>6. ASSUME NEW t \in Task PROVE BatchMatches(t)'
    <2>1. BatchMatches(t) /\ batch[t] \subseteq Resource  BY DEF Inv, TypeOK
    <2>2. QED  BY <1>1, <1>3, <1>4, <2>1 DEF BatchMatches
  <1>7. Exclusive'  BY <1>4 DEF Inv, Exclusive
  <1>8. \A o \in Resource : ResourceMatches(o)'
    BY <1>1, <1>3, <1>4 DEF Inv, ResourceMatches
  <1>9. QED  BY <1>5, <1>6, <1>7, <1>8 DEF Inv

LEMMA InvInit == Init => Inv
  <1> SUFFICES ASSUME Init PROVE Inv
    OBVIOUS
  <1>1. \A s \in Session : s # Reclaimer  BY DesktopAssumption
  <1>2. TypeOK
    <2>1. LedgerTypeOK  BY LedgerTypeInit DEF Init
    <2>2. QED  BY <1>1, <2>1 DEF Init, TypeOK, Task, Purpose, SessionLabel, ReclaimerLabel
  <1>3. \A t \in Task : pc[t] \in {"idle", "closed"} /\ batch[t] = {} /\ lease[t] = NoResource
    BY DEF Init
  <1>4. \A t \in Task, r \in Resource : ~Claims(t, r)
    BY <1>3, DesktopAssumption DEF Claims, Holds
  <1>5. \A t \in Task : HandsMatch(t)
    BY <1>3 DEF HandsMatch, EmptyHanded, Using, Ending, Placed, Removing
  <1>6. \A t \in Task : BatchMatches(t)  BY <1>3 DEF BatchMatches
  <1>7. \A r \in Resource : St(r) = "Gone" /\ ~Idle(r) /\ phys[r] = "absent"
    BY DEF Init, LedgerInit, St, Idle, Registered
  <1>8. Exclusive  BY <1>4 DEF Exclusive
  <1>9. \A r \in Resource : ResourceMatches(r)  BY <1>7 DEF ResourceMatches
  <1>10. QED  BY <1>2, <1>5, <1>6, <1>8, <1>9 DEF Inv

LEMMA InvStep == Inv /\ [Next]_vars => Inv'
  <1> SUFFICES ASSUME Inv, [Next]_vars PROVE Inv'
    OBVIOUS
  <1>0. TypeOK'  BY HostTypeStep
  <1>1. ASSUME NEW t \in Task, Retire(t) PROVE Inv'
    BY <1>0, <1>1, TakeNextStep, AnswerStep, RemoveStep, LocalStep DEF Retire
  <1>2. ASSUME NEW s \in Session, NEW k \in Key, NEW p \in Purpose, OpenBegin(s, k, p)
        PROVE  Inv'
    BY <1>0, <1>2, LocalStep
  <1>3. ASSUME NEW s \in Session, Open(s) PROVE Inv'
    BY <1>0, <1>3, LetGoStep, RetirePlanStep, TakeStep, LocalStep, OwnStep, AnswerStep,
       RemoveStep DEF Open
  <1>4. ASSUME NEW s \in Session, Execute(s) \/ CloseBegin(s) PROVE Inv'
    BY <1>0, <1>4, OwnStep, LocalStep
  <1>5. ASSUME NEW s \in Session, Close(s) PROVE Inv'
    BY <1>0, <1>5, OwnStep, LetGoStep, LocalStep, AnswerStep, RemoveStep DEF Close
  <1>6. ASSUME Reclaim PROVE Inv'
    BY <1>0, <1>6, RetirePlanStep, VerifyPlanStep, TakeNextStep, AnswerStep, RemoveStep,
       LocalStep DEF Reclaim
  <1>7. ASSUME NEW r \in Resource, Elapse(r) PROVE Inv'
    BY <1>0, <1>7, ElapseStep
  <1>8. CASE UNCHANGED vars
    BY <1>8 DEF vars, Inv, TypeOK, LedgerTypeOK, HandsMatch, BatchMatches, Exclusive,
                ResourceMatches, Claims, Holds, St, Due, Idle, Registered
  <1>9. QED  BY <1>1, <1>2, <1>3, <1>4, <1>5, <1>6, <1>7, <1>8 DEF Next

LEMMA InvHolds == Spec => []Inv
  BY InvInit, InvStep, PTL DEF Spec

--------------------------------------------------------------------------------
(* What follows from the invariant.                                             *)

\* Every step of the host keeps the types of the table, the labels and the ledger.
THEOREM DesktopTypeCorrect == Spec => []TypeOK
  <1>1. Inv => TypeOK  BY DEF Inv
  <1>2. QED  BY <1>1, InvHolds, PTL

\* No two tasks work on one connection.
THEOREM OneTaskPerLease == Spec => []LeaseHeldByOneTask
  <1>1. Inv => LeaseHeldByOneTask  BY DEF Inv, Exclusive, Claims, LeaseHeldByOneTask
  <1>2. QED  BY <1>1, InvHolds, PTL

\* The connection of an open session is live, in the table and not up for retirement.
THEOREM OpenSessionsAreUsable == Spec => []OpenSessionIsUsable
  <1>1. ASSUME Inv, NEW s \in Session, pc[s] = "open"
        PROVE  /\ lease[s] \in mapped /\ phys[lease[s]] = "open" /\ Registered(lease[s])
               /\ rows[lease[s]].state \in {"Acquired", "InUse"} /\ rows[lease[s]].idle = "no"
    <2>1. HandsMatch(s)  BY <1>1 DEF Inv, Task
    <2>2. QED  BY <1>1, <2>1 DEF HandsMatch, Using, Placed, St, Idle
  <1>2. Inv => OpenSessionIsUsable  BY <1>1 DEF OpenSessionIsUsable
  <1>3. QED  BY <1>2, InvHolds, PTL

\* What claim_idle may hand out is live, in the table and in nobody's hands.
THEOREM IdleLeasesAreReady == Spec => []IdleLeaseIsReady
  <1>1. Inv => IdleLeaseIsReady
    BY DEF Inv, ResourceMatches, Claims, IdleLeaseIsReady, Claimable, Idle, Registered
  <1>2. QED  BY <1>1, InvHolds, PTL

\* A connection that may be open is in the table or in a task's hands.
THEOREM NothingIsOrphaned == Spec => []NoOrphanConnection
  <1>1. Inv => NoOrphanConnection
    BY DEF Inv, ResourceMatches, Holds, NoOrphanConnection
  <1>2. QED  BY <1>1, InvHolds, PTL

\* The host drives the ledger by its operations only, so whatever holds of the
\* ledger for every caller (LedgerSpec) holds of it here.
THEOREM HostKeepsLedger == Spec => LedgerSpec
  <1>1. Init => LedgerInit  BY DEF Init
  <1>2. Inv /\ [Next]_vars => [LedgerNext]_ledgerVars  BY HostStepIsLedgerStep
  <1>3. QED  BY <1>1, <1>2, InvHolds, PTL DEF Spec, LedgerSpec

--------------------------------------------------------------------------------
(* A closed session.                                                            *)

BindingMatches(s) ==
    /\ bound[s] # NoResource => /\ bound[s] = lease[s]
                                /\ pc[s] \in {"open", "closing", "parked", "unbind"}
    /\ pc[s] = "closed" => s \notin quota

Bindings == \A s \in Session : BindingMatches(s)

LEMMA BindingStep == Inv /\ Bindings /\ [Next]_vars => Bindings'
  <1> SUFFICES ASSUME Inv, Bindings, [Next]_vars, NEW s \in Session
               PROVE  BindingMatches(s)'
    BY DEF Bindings
  <1>0. /\ TypeOK /\ BindingMatches(s) /\ s # Reclaimer /\ s \in Task
        /\ \A u \in Session : u \in Task
        /\ Reclaimer \in Task
    BY DesktopAssumption DEF Inv, Bindings, Task
  <1> USE <1>0 DEF BindingMatches, TypeOK, Goto
  <1>1. ASSUME NEW t \in Task, Retire(t) PROVE BindingMatches(s)'
    <2>1. CASE t # s
      <3>1. pc'[s] = pc[s] /\ lease'[s] = lease[s] /\ UNCHANGED <<bound, quota>>
        BY <1>1, <2>1, ZenonT(60) DEF Retire, RetireNext, RetireAnswer, RetireRemove, RetireDone, hostVars
      <3>2. QED  BY <3>1
    <2>2. CASE t = s
      <3>1. /\ pc[s] \in Retiring /\ pc'[s] \in Retiring \cup {"claim"}
            /\ UNCHANGED <<bound, quota>>
        BY <1>1, <2>2 DEF Retire, RetireNext, RetireAnswer, RetireRemove, RetireDone,
           hostVars, Retiring
      <3>2. QED  BY <3>1 DEF Retiring
    <2>3. QED  BY <2>1, <2>2
  <1>2. ASSUME NEW u \in Session, NEW k \in Key, NEW p \in Purpose, OpenBegin(u, k, p)
        PROVE  BindingMatches(s)'
    BY <1>2 DEF OpenBegin
  <1>3. ASSUME NEW u \in Session, Open(u) PROVE BindingMatches(s)'
    <2>1. CASE OpenAbandon(u)  BY <2>1 DEF OpenAbandon, Finish
    <2>2. CASE OpenPlan(u) \/ OpenNoIdle(u) \/ OpenObserved(u)
      BY <2>2 DEF OpenPlan, OpenNoIdle, OpenObserved, hostVars
    <2>3. CASE OpenClaim(u)  BY <2>3 DEF OpenClaim, hostVars
    <2>4. CASE OpenLookup(u)  BY <2>4 DEF OpenLookup, Finish
    <2>5. CASE OpenAcquire(u)  BY <2>5 DEF OpenAcquire
    <2>6. CASE OpenRefusedAnswer(u)  BY <2>6 DEF OpenRefusedAnswer, Finish
    <2>7. CASE OpenObserveFails(u)  BY <2>7 DEF OpenObserveFails, hostVars
    <2>8. CASE OpenObserveAnswer(u)  BY <2>8 DEF OpenObserveAnswer
    <2>9. CASE OpenRemove(u) \/ OpenRetain(u)  BY <2>9 DEF OpenRemove, OpenRetain, Finish
    <2>10. CASE OpenInsert(u)  BY <2>10 DEF OpenInsert
    <2>11. CASE OpenBind(u)  BY <2>11 DEF OpenBind
    <2>12. QED
      BY <1>3, <2>1, <2>2, <2>3, <2>4, <2>5, <2>6, <2>7, <2>8, <2>9, <2>10, <2>11 DEF Open
  <1>4. ASSUME NEW u \in Session, Execute(u) \/ CloseBegin(u) PROVE BindingMatches(s)'
    BY <1>4 DEF Execute, CloseBegin, hostVars, taskVars
  <1>5. ASSUME NEW u \in Session, Close(u) PROVE BindingMatches(s)'
    <2>1. CASE CloseUnresolved(u)  BY <2>1 DEF CloseUnresolved, Unbind
    <2>2. CASE CloseReset(u)  BY <2>2 DEF CloseReset, hostVars
    <2>3. CASE CloseParked(u)  BY <2>3 DEF CloseParked, Unbind, Finish
    <2>4. CASE CloseUnbind(u)  BY <2>4 DEF CloseUnbind, Unbind
    <2>5. CASE CloseAnswer(u)  BY <2>5 DEF CloseAnswer
    <2>6. CASE CloseRemove(u)  BY <2>6 DEF CloseRemove, Finish
    <2>7. QED  BY <1>5, <2>1, <2>2, <2>3, <2>4, <2>5, <2>6 DEF Close
  <1>6. ASSUME Reclaim PROVE BindingMatches(s)'
    <2>1. pc'[s] = pc[s] /\ lease'[s] = lease[s] /\ UNCHANGED <<bound, quota>>
      BY <1>6 DEF Reclaim, Sweep, VerifyPlan, VerifyNext, VerifyAnswer, VerifyRemove,
         VerifyDone, hostVars
    <2>2. QED  BY <2>1
  <1>7. ASSUME NEW r \in Resource, Elapse(r) PROVE BindingMatches(s)'
    BY <1>7 DEF Elapse, hostVars, taskVars
  <1>8. CASE UNCHANGED vars  BY <1>8 DEF vars
  <1>9. QED  BY <1>1, <1>2, <1>3, <1>4, <1>5, <1>6, <1>7, <1>8 DEF Next

\* What by_session names is, at every label, what the label says.
LEMMA BindingsHold == Spec => []Bindings
  <1>1. Init => Bindings
    BY DesktopAssumption DEF Init, Bindings, BindingMatches
  <1>2. QED  BY <1>1, InvHolds, BindingStep, PTL DEF Spec

\* Whatever way an open or a close ends, the permit, the binding and the lease go.
THEOREM ClosedSessionsHoldNothing == Spec => []ClosedSessionHoldsNothing
  <1>1. ASSUME Inv, Bindings, NEW s \in Session, pc[s] = "closed"
        PROVE  s \notin quota /\ bound[s] = NoResource /\ lease[s] = NoResource
    <2>1. HandsMatch(s)  BY <1>1 DEF Inv, Task
    <2>2. QED  BY <1>1, <2>1 DEF Bindings, BindingMatches, HandsMatch, EmptyHanded
  <1>2. Inv /\ Bindings => ClosedSessionHoldsNothing
    BY <1>1 DEF ClosedSessionHoldsNothing
  <1>3. QED  BY <1>2, InvHolds, BindingsHold, PTL

--------------------------------------------------------------------------------
(* A session whose driver does not park stays bound to a live connection.       *)

\* Rows keep their key, and no key becomes stateful.
KeepsKeys ==
    /\ \A r \in Resource : Registered(r)' => Registered(r) /\ rows'[r].key = rows[r].key
    /\ \A k \in Key : pools'[k] = "stateful" => pools[k] = "stateful"

\* Only stateful pools are of connections that may be parked; a session uses a connection
\* of the key it asked for, and so does one that has parked it; the connection it is about
\* to unbind is open; and where nothing can be parked an open session is bound.
Keyed(s) ==
    /\ pc[s] \in Using \cup {"parked"} /\ Registered(lease[s]) =>
          rows[lease[s]].key = request[s].key
    /\ pc[s] = "parked" => ~Plain(s)
    /\ pc[s] = "unbind" => phys[lease[s]] = "open"
    /\ pc[s] = "open" /\ Plain(s) => bound[s] = lease[s]
Poolable == \A k \in Key : pools[k] = "stateful" => ConnectionOf[k] \in Reusable
Pooled == Poolable /\ \A s \in Session : Keyed(s)

\* No operation of the ledger but `opened` gives a row a key or a pool a policy.
LEMMA OperationsKeepKeys ==
    ASSUME LedgerTypeOK,
           \/ UNCHANGED ledgerVars
           \/ \E r \in Resource :
                 \/ Executing(r) \/ IdleExpires(r) \/ VerifyFallsDue(r)
                 \/ \E clean, admits : Returning(r, clean, admits)
                 \/ \E confirmed \in BOOLEAN : Closed(r, confirmed)
                 \/ \E k \in Key : ClaimIdle(k, r)
           \/ \E k : IdleToRetire(k)
           \/ QuarantineToVerify
    PROVE  KeepsKeys
  <1>0. /\ \A r \in Resource : rows[r] \in Row \/ rows[r] = NoRow
        /\ NoRow \notin Row /\ rows \in [Resource -> Row \cup {NoRow}]
        /\ pools \in [Key -> Policy \cup {"undeclared"}]
    BY LedgerAssumption DEF LedgerTypeOK
  <1>1. CASE UNCHANGED ledgerVars  BY <1>1 DEF ledgerVars, KeepsKeys, Registered
  <1>2. ASSUME NEW r \in Resource, Executing(r) PROVE KeepsKeys
    BY <1>0, <1>2 DEF KeepsKeys, Registered, Executing, Row
  <1>3. ASSUME NEW r \in Resource, IdleExpires(r) \/ VerifyFallsDue(r) PROVE KeepsKeys
    BY <1>0, <1>3 DEF KeepsKeys, Registered, IdleExpires, VerifyFallsDue, Row
  <1>4. ASSUME NEW r \in Resource, NEW clean, NEW admits, Returning(r, clean, admits)
        PROVE  KeepsKeys
    BY <1>0, <1>4 DEF KeepsKeys, Registered, Returning, Row
  <1>5. ASSUME NEW r \in Resource, NEW confirmed \in BOOLEAN, Closed(r, confirmed)
        PROVE  KeepsKeys
    <2>1. CASE confirmed
      <3>1. /\ Registered(r) /\ rows' = [rows EXCEPT ![r] = NoRow]
            /\ pools' = pools \/ pools' = [pools EXCEPT ![rows[r].key] = "undeclared"]
        BY <1>5, <2>1, Zenon DEF Closed, ClosedConfirmed
      <3>2. \A k \in Key : pools'[k] = "stateful" => pools[k] = "stateful"  BY <1>0, <3>1
      <3>3. \A o \in Resource : rows'[o] = rows[o] \/ rows'[o] = NoRow  BY <1>0, <3>1
      <3>4. QED  BY <3>2, <3>3 DEF KeepsKeys, Registered
    <2>2. CASE ~confirmed
      <3>1. ClosedUnconfirmed(r)  BY <1>5, <2>2 DEF Closed
      <3>2. QED  BY <1>0, <3>1 DEF KeepsKeys, Registered, ClosedUnconfirmed, Row
    <2>3. QED  BY <2>1, <2>2
  <1>6. ASSUME NEW r \in Resource, NEW k \in Key, ClaimIdle(k, r) PROVE KeepsKeys
    BY <1>0, <1>6, SMTT(60) DEF KeepsKeys, Registered, ClaimIdle, Claimable, Row
  <1>7. ASSUME NEW k, IdleToRetire(k) PROVE KeepsKeys
    BY <1>0, <1>7 DEF KeepsKeys, Registered, IdleToRetire, RetireBatch, Idle, Row
  <1>8. CASE QuarantineToVerify
    BY <1>0, <1>8 DEF KeepsKeys, Registered, QuarantineToVerify, VerifyBatch, Row
  <1>9. QED  BY <1>1, <1>2, <1>3, <1>4, <1>5, <1>6, <1>7, <1>8

\* Of the host's steps only the registration of a new connection does.
LEMMA StepsKeepKeys ==
    ASSUME Inv, [Next]_vars
    PROVE  KeepsKeys \/ \E s \in Session : OpenAcquire(s)
  <1>0. LedgerTypeOK /\ TypeOK /\ (\A s \in Session : s \in Task) /\ Reclaimer \in Task
    BY DEF Inv, TypeOK, Task
  <1>1. ASSUME NEW r \in Resource, NEW clean, NEW admits, Returning(r, clean, admits)
        PROVE  KeepsKeys
    BY <1>0, <1>1, OperationsKeepKeys
  <1>2. ASSUME NEW r \in Resource, NEW confirmed \in BOOLEAN, Closed(r, confirmed)
        PROVE  KeepsKeys
    BY <1>0, <1>2, OperationsKeepKeys
  <1>3. ASSUME NEW k, IdleToRetire(k) PROVE KeepsKeys
    BY <1>0, <1>3, OperationsKeepKeys
  <1>4. ASSUME UNCHANGED <<rows, pools>> PROVE KeepsKeys
    BY <1>0, <1>4, OperationsKeepKeys DEF ledgerVars
  <1>5. ASSUME NEW t \in Task, Retire(t) PROVE KeepsKeys
    <2>1. CASE RetireAnswer(t)
      <3>1. lease[t] \in Resource  BY <2>1, InHand DEF RetireAnswer, EmptyHanded
      <3>2. QED  BY <1>2, <2>1, <3>1 DEF RetireAnswer
    <2>2. CASE RetireNext(t)
      <3>1. batch[t] \subseteq Resource  BY <1>0 DEF TypeOK
      <3>2. QED  BY <1>1, <1>4, <2>2, <3>1 DEF RetireNext
    <2>3. CASE RetireRemove(t) \/ RetireDone(t)
      BY <1>4, <2>3 DEF RetireRemove, RetireDone
    <2>4. QED  BY <1>5, <2>1, <2>2, <2>3 DEF Retire
  <1>6. ASSUME NEW s \in Session, Open(s), ~OpenAcquire(s) PROVE KeepsKeys
    <2>1. CASE OpenObserveAnswer(s)
      <3>1. lease[s] \in Resource  BY <1>0, <2>1, InHand DEF OpenObserveAnswer, EmptyHanded
      <3>2. QED  BY <1>2, <2>1, <3>1 DEF OpenObserveAnswer
    <2>2. CASE OpenObserveFails(s)
      <3>1. lease[s] \in Resource  BY <1>0, <2>2, InHand DEF OpenObserveFails, EmptyHanded
      <3>2. QED  BY <1>1, <2>2, <3>1 DEF OpenObserveFails
    <2>3. CASE OpenPlan(s)  BY <1>3, <2>3 DEF OpenPlan
    <2>4. CASE OpenClaim(s)
      <3>1. request[s].key \in Key  BY <1>0 DEF TypeOK
      <3>2. PICK o \in Claimable(request[s].key) : ClaimIdle(request[s].key, o)
        BY <2>4 DEF OpenClaim
      <3>3. o \in Resource  BY <3>2 DEF Claimable
      <3>4. QED  BY <1>0, <3>1, <3>2, <3>3, OperationsKeepKeys
    <2>5. CASE OpenAbandon(s) \/ OpenNoIdle(s) \/ OpenLookup(s) \/ OpenRefusedAnswer(s)
               \/ OpenObserved(s) \/ OpenRemove(s) \/ OpenRetain(s) \/ OpenInsert(s) \/ OpenBind(s)
      BY <1>4, <2>5 DEF OpenAbandon, OpenNoIdle, OpenLookup, OpenRefusedAnswer, OpenObserved,
                        OpenRemove, OpenRetain, OpenInsert, OpenBind
    <2>6. QED  BY <1>6, <2>1, <2>2, <2>3, <2>4, <2>5 DEF Open
  <1>7. ASSUME NEW s \in Session, Execute(s) PROVE KeepsKeys
    <2>1. lease[s] \in Resource  BY <1>0, <1>7, InHand DEF Execute, EmptyHanded
    <2>2. QED  BY <1>0, <1>7, <2>1, OperationsKeepKeys DEF Execute
  <1>8. ASSUME NEW s \in Session, Close(s) PROVE KeepsKeys
    <2>1. CASE CloseAnswer(s)
      <3>1. lease[s] \in Resource  BY <1>0, <2>1, InHand DEF CloseAnswer, EmptyHanded
      <3>2. QED  BY <1>2, <2>1, <3>1 DEF CloseAnswer
    <2>2. CASE CloseUnresolved(s) \/ CloseReset(s)
      <3>1. lease[s] \in Resource
        BY <1>0, <2>2, InHand DEF CloseUnresolved, CloseReset, EmptyHanded
      <3>2. QED  BY <1>1, <2>2, <3>1 DEF CloseUnresolved, CloseReset
    <2>3. CASE CloseParked(s) \/ CloseUnbind(s) \/ CloseRemove(s)
      BY <1>4, <2>3 DEF CloseParked, CloseUnbind, CloseRemove
    <2>4. QED  BY <1>8, <2>1, <2>2, <2>3 DEF Close
  <1>9. ASSUME Reclaim PROVE KeepsKeys
    <2>1. CASE VerifyAnswer
      <3>1. lease[Reclaimer] \in Resource
        BY <1>0, <2>1, InHand DEF VerifyAnswer, EmptyHanded
      <3>2. QED  BY <1>2, <2>1, <3>1 DEF VerifyAnswer
    <2>2. CASE Sweep  BY <1>3, <2>2 DEF Sweep
    <2>3. CASE VerifyPlan  BY <1>0, <2>3, OperationsKeepKeys DEF VerifyPlan
    <2>4. CASE VerifyNext \/ VerifyRemove \/ VerifyDone
      BY <1>4, <2>4 DEF VerifyNext, VerifyRemove, VerifyDone
    <2>5. QED  BY <1>9, <2>1, <2>2, <2>3, <2>4 DEF Reclaim
  <1>10. ASSUME NEW o \in Resource, Elapse(o) PROVE KeepsKeys
    BY <1>0, <1>10, OperationsKeepKeys DEF Elapse
  <1>11. ASSUME \/ \E s \in Session, k \in Key, p \in Purpose : OpenBegin(s, k, p)
                \/ \E s \in Session : CloseBegin(s)
                \/ UNCHANGED vars
         PROVE  KeepsKeys
    BY <1>4, <1>11 DEF OpenBegin, CloseBegin, vars
  <1>12. QED  BY <1>5, <1>6, <1>7, <1>8, <1>9, <1>10, <1>11 DEF Next

\* Nobody else touches the connection a session is about to unbind.
LEMMA UnboundStaysOpen ==
    ASSUME Inv, [Next]_vars, NEW s \in Session, pc[s] = "unbind"
    PROVE  phys'[lease[s]] = phys[lease[s]]
  <1>0. /\ TypeOK /\ s \in Task /\ s # Reclaimer /\ Reclaimer \in Task
        /\ \A u \in Session : u \in Task
    BY DesktopAssumption DEF Inv, Task
  <1>1. lease[s] \in Resource /\ Holds(s, lease[s])  BY <1>0, InHand DEF EmptyHanded
  <1>2. ASSUME NEW t \in Task, pc[t] \notin EmptyHanded \cup {"parked", "unbind"},
               NEW confirmed, DriverClose(lease[t], confirmed)
        PROVE  phys'[lease[s]] = phys[lease[s]]
    <2>1. Holds(t, lease[t]) /\ lease[t] \in Resource  BY <1>2, InHand
    <2>2. Exclusive /\ t # s  BY <1>2 DEF Inv
    <2>3. lease[t] # lease[s]  BY <1>0, <1>1, <2>1, <2>2 DEF Exclusive, Claims
    <2>4. QED  BY <1>0, <1>1, <1>2, <2>3 DEF DriverClose, TypeOK
  <1>3. ASSUME NEW t \in Task, Retire(t) PROVE phys'[lease[s]] = phys[lease[s]]
    BY <1>2, <1>3 DEF Retire, RetireNext, RetireAnswer, RetireRemove, RetireDone, hostVars,
       EmptyHanded
  <1>4. ASSUME NEW u \in Session, Open(u) PROVE phys'[lease[s]] = phys[lease[s]]
    <2>1. CASE OpenAcquire(u)
      <3>1. PICK r \in Resource : Fresh(r) /\ phys' = [phys EXCEPT ![r] = "open"]
        BY <2>1 DEF OpenAcquire
      <3>2. r # lease[s]  BY <1>0, <3>1 DEF Fresh
      <3>3. QED  BY <1>0, <1>1, <3>1, <3>2 DEF TypeOK
    <2>2. CASE OpenRefusedAnswer(u) \/ OpenObserveAnswer(u)
      BY <1>0, <1>2, <2>2 DEF OpenRefusedAnswer, OpenObserveAnswer, EmptyHanded
    <2>3. CASE \/ OpenAbandon(u) \/ OpenPlan(u) \/ OpenClaim(u) \/ OpenNoIdle(u) \/ OpenLookup(u)
               \/ OpenObserved(u) \/ OpenObserveFails(u) \/ OpenRemove(u) \/ OpenRetain(u)
               \/ OpenInsert(u) \/ OpenBind(u)
      BY <2>3 DEF OpenAbandon, OpenPlan, OpenClaim, OpenNoIdle, OpenLookup, OpenObserved,
         OpenObserveFails, OpenRemove, OpenRetain, OpenInsert, OpenBind, hostVars
    <2>4. QED  BY <1>4, <2>1, <2>2, <2>3 DEF Open
  <1>5. ASSUME NEW u \in Session, Close(u) PROVE phys'[lease[s]] = phys[lease[s]]
    <2>1. CASE CloseAnswer(u)  BY <1>0, <1>2, <2>1 DEF CloseAnswer, EmptyHanded
    <2>2. CASE ~CloseAnswer(u)
      BY <1>5, <2>2 DEF Close, CloseUnresolved, CloseReset, CloseParked, CloseUnbind, CloseRemove,
         hostVars
    <2>3. QED  BY <2>1, <2>2
  <1>6. ASSUME Reclaim PROVE phys'[lease[s]] = phys[lease[s]]
    <2>1. CASE VerifyAnswer  BY <1>0, <1>2, <2>1 DEF VerifyAnswer, EmptyHanded
    <2>2. CASE ~VerifyAnswer
      BY <1>6, <2>2 DEF Reclaim, Sweep, VerifyPlan, VerifyNext, VerifyRemove, VerifyDone, hostVars
    <2>3. QED  BY <2>1, <2>2
  <1>7. ASSUME \/ \E u \in Session, k \in Key, p \in Purpose : OpenBegin(u, k, p)
               \/ \E u \in Session : Execute(u) \/ CloseBegin(u)
               \/ \E r \in Resource : Elapse(r)
               \/ UNCHANGED vars
        PROVE  phys'[lease[s]] = phys[lease[s]]
    BY <1>7 DEF OpenBegin, Execute, CloseBegin, Elapse, hostVars, vars
  <1>8. QED  BY <1>3, <1>4, <1>5, <1>6, <1>7 DEF Next

\* What the steps of others may do to a session.
Undisturbed(s) ==
    /\ pc'[s] = pc[s] /\ lease'[s] = lease[s] /\ request'[s] = request[s]
    /\ \/ bound'[s] = bound[s]
       \/ \E u \in Session \ {s} :
             pc[u] \in {"closing", "parked", "unbind"} /\ Unbind(lease[u])

\* A step is the session's own or leaves it undisturbed.
LEMMA OwnOrUndisturbed ==
    ASSUME Inv, [Next]_vars, NEW s \in Session
    PROVE  \/ Undisturbed(s)
           \/ Retire(s) \/ Open(s) \/ CloseBegin(s) \/ Close(s)
           \/ \E k \in Key, p \in Purpose : OpenBegin(s, k, p)
  <1>0. /\ TypeOK /\ s \in Task /\ s # Reclaimer /\ Reclaimer \in Task
        /\ \A u \in Session : u \in Task
    BY DesktopAssumption DEF Inv, Task
  <1> USE <1>0 DEF TypeOK, Goto, Undisturbed
  <1>1. ASSUME NEW t \in Task, t # s, Retire(t) PROVE Undisturbed(s)
    BY <1>1, ZenonT(60) DEF Retire, RetireNext, RetireAnswer, RetireRemove, RetireDone, hostVars
  <1>2. ASSUME NEW u \in Session, u # s, NEW k, NEW p, OpenBegin(u, k, p) PROVE Undisturbed(s)
    BY <1>2 DEF OpenBegin
  <1>3. ASSUME NEW u \in Session, u # s, Open(u) PROVE Undisturbed(s)
    <2>1. CASE \/ OpenAbandon(u) \/ OpenPlan(u) \/ OpenClaim(u) \/ OpenNoIdle(u) \/ OpenLookup(u)
               \/ OpenAcquire(u)
      BY <1>3, <2>1 DEF OpenAbandon, OpenPlan, OpenClaim, OpenNoIdle, OpenLookup, OpenAcquire,
         Finish, hostVars
    <2>2. CASE \/ OpenRefusedAnswer(u) \/ OpenObserved(u) \/ OpenObserveFails(u)
               \/ OpenObserveAnswer(u) \/ OpenRemove(u) \/ OpenRetain(u) \/ OpenInsert(u)
               \/ OpenBind(u)
      BY <1>3, <2>2 DEF OpenRefusedAnswer, OpenObserved, OpenObserveFails, OpenObserveAnswer,
         OpenRemove, OpenRetain, OpenInsert, OpenBind, Finish, hostVars
    <2>3. QED  BY <1>3, <2>1, <2>2 DEF Open
  <1>4. ASSUME NEW u \in Session, u # s, Close(u) PROVE Undisturbed(s)
    <2>1. CASE CloseUnresolved(u) \/ CloseParked(u) \/ CloseUnbind(u)
      BY <1>4, <2>1 DEF CloseUnresolved, CloseParked, CloseUnbind, Finish
    <2>2. CASE CloseReset(u) \/ CloseAnswer(u) \/ CloseRemove(u)
      BY <1>4, <2>2 DEF CloseReset, CloseAnswer, CloseRemove, Finish, hostVars
    <2>3. QED  BY <1>4, <2>1, <2>2 DEF Close
  <1>5. ASSUME Reclaim PROVE Undisturbed(s)
    BY <1>5 DEF Reclaim, Sweep, VerifyPlan, VerifyNext, VerifyAnswer, VerifyRemove, VerifyDone,
       hostVars
  <1>6. ASSUME \/ \E u \in Session : Execute(u) \/ (u # s /\ CloseBegin(u))
               \/ \E r \in Resource : Elapse(r)
               \/ UNCHANGED vars
        PROVE  Undisturbed(s)
    BY <1>6 DEF Execute, CloseBegin, Elapse, hostVars, taskVars, vars
  <1>7. QED  BY <1>1, <1>2, <1>3, <1>4, <1>5, <1>6 DEF Next

\* What a step of others leaves a session with.
LEMMA UndisturbedKeyed ==
    ASSUME Inv, Pooled, NEW s \in Session, Undisturbed(s), Keyed(s),
           KeepsKeys \/ \E u \in Session : OpenAcquire(u),
           pc[s] = "unbind" => phys'[lease[s]] = phys[lease[s]]
    PROVE  Keyed(s)'
  <1>0. /\ TypeOK /\ LedgerTypeOK /\ Exclusive /\ s \in Task
        /\ \A u \in Session : u \in Task /\ Keyed(u)
        /\ UNCHANGED <<pc[s], lease[s], request[s]>>
    BY DEF Inv, TypeOK, Task, Pooled, Undisturbed
  <1>1. pc[s] \notin EmptyHanded => lease[s] \in Resource  BY <1>0, InHand
  <1>2. ASSUME pc[s] \in Using \cup {"parked"}, Registered(lease[s])'
        PROVE  rows'[lease[s]].key = request[s].key
    <2>1. lease[s] \in Resource  BY <1>1, <1>2 DEF Using, EmptyHanded
    <2>2. CASE KeepsKeys
      <3>1. Registered(lease[s]) /\ rows'[lease[s]].key = rows[lease[s]].key
        BY <1>0, <1>2, <2>1, <2>2 DEF KeepsKeys, Registered
      <3>2. QED  BY <1>0, <1>2, <3>1 DEF Keyed
    <2>3. ASSUME NEW u \in Session, OpenAcquire(u) PROVE rows'[lease[s]].key = request[s].key
      <3>1. PICK r \in Resource :
               /\ Fresh(r)
               /\ rows' = rows \/ \E k, p, pol : Opened(r, k, p, pol)
        BY <2>3, Zenon DEF OpenAcquire
      <3>2. r # lease[s]  BY <1>0, <3>1 DEF Fresh
      <3>3. rows'[lease[s]] = rows[lease[s]]
        BY <1>0, <2>1, <3>1, <3>2 DEF Opened, LedgerTypeOK
      <3>4. Registered(lease[s])  BY <1>0, <1>2, <3>3 DEF Registered
      <3>5. QED  BY <1>0, <1>2, <3>3, <3>4 DEF Keyed
    <2>4. QED  BY <2>2, <2>3
  <1>3. ASSUME pc[s] = "open", Plain(s) PROVE bound'[s] = lease[s]
    <2>0. bound[s] = lease[s]  BY <1>0, <1>3 DEF Keyed
    <2>1. CASE bound'[s] = bound[s]  BY <2>0, <2>1
    <2>2. ASSUME NEW u \in Session \ {s}, pc[u] \in {"closing", "parked", "unbind"},
                 Unbind(lease[u])
          PROVE  bound'[s] = lease[s]
      <3>1. /\ lease[s] \in Resource /\ Holds(s, lease[s])
            /\ Registered(lease[s]) /\ HandsMatch(s)
        <4>1. HandsMatch(s)  BY <1>0 DEF Inv
        <4>2. St(lease[s]) # "Gone"  BY <1>3, <4>1 DEF HandsMatch, Using
        <4>3. Registered(lease[s])  BY <4>2 DEF St
        <4>4. QED  BY <1>0, <1>3, <4>1, <4>3, InHand DEF EmptyHanded
      <3>2. lease[u] # lease[s]
        <4>1. CASE pc[u] \in {"closing", "unbind"}
          <5>1. Holds(u, lease[u])  BY <1>0, <4>1, InHand DEF EmptyHanded
          <5>2. QED  BY <1>0, <2>2, <3>1, <5>1 DEF Exclusive, Claims
        <4>2. CASE pc[u] = "parked"
          <5>1. SUFFICES ASSUME lease[u] = lease[s] PROVE FALSE
            OBVIOUS
          <5>2. rows[lease[s]].key = request[s].key
            BY <1>0, <1>3, <3>1 DEF Keyed, Using
          <5>3. rows[lease[u]].key = request[u].key /\ ~Plain(u)
            BY <1>0, <3>1, <4>2, <5>1 DEF Keyed
          <5>4. QED  BY <1>3, <5>1, <5>2, <5>3 DEF Plain
        <4>3. QED  BY <2>2, <4>1, <4>2
      <3>3. QED  BY <2>0, <2>2, <3>2 DEF Unbind
    <2>3. QED  BY <2>1, <2>2 DEF Undisturbed
  <1>4. Plain(s)' <=> Plain(s)  BY <1>0 DEF Plain
  <1>5. pc[s] = "unbind" => phys'[lease[s]] = "open"  BY DEF Keyed
  <1>6. pc[s] = "parked" => ~Plain(s)  BY DEF Keyed
  <1>7. QED  BY <1>0, <1>2, <1>3, <1>4, <1>5, <1>6 DEF Keyed, Registered

\* A session's own steps.
LEMMA OwnKeyed ==
    ASSUME Inv, Pooled, NEW s \in Session, KeepsKeys \/ OpenAcquire(s),
           \/ Retire(s) \/ Open(s) \/ CloseBegin(s) \/ Close(s)
           \/ \E k \in Key, p \in Purpose : OpenBegin(s, k, p)
    PROVE  Keyed(s)'
  <1>0. /\ TypeOK /\ LedgerTypeOK /\ s \in Task /\ s # Reclaimer /\ HandsMatch(s)
        /\ Keyed(s) /\ Poolable
    BY DesktopAssumption DEF Inv, TypeOK, Task, Pooled
  <1>1. pc[s] \notin EmptyHanded => lease[s] \in Resource  BY <1>0, InHand
  <1>2. ASSUME pc'[s] \notin Using \cup {"parked", "unbind", "open"} PROVE Keyed(s)'
    BY <1>2 DEF Keyed
  <1>3. ASSUME pc[s] \in Using, pc'[s] \in Using \ {"open"}, UNCHANGED <<rows, lease, request>>
        PROVE  Keyed(s)'
    BY <1>0, <1>3 DEF Keyed, Registered, Using
  <1>4. CASE Retire(s)
    <2>1. pc'[s] \in Retiring \cup {"claim"}
      BY <1>0, <1>4 DEF TypeOK, Goto, Retire, RetireNext, RetireAnswer, RetireRemove, RetireDone,
         Retiring
    <2>2. QED  BY <1>2, <2>1 DEF Retiring, Using
  <1>5. ASSUME NEW k \in Key, NEW p \in Purpose, OpenBegin(s, k, p) PROVE Keyed(s)'
    <2>1. pc'[s] = "plan"  BY <1>0, <1>5 DEF TypeOK, Goto, OpenBegin
    <2>2. QED  BY <1>2, <2>1 DEF Using
  <1>6. CASE CloseBegin(s)
    <2>1. /\ pc[s] = "open" /\ pc'[s] = "closing" /\ UNCHANGED <<rows, lease, request>>
      BY <1>0, <1>6 DEF TypeOK, Goto, CloseBegin
    <2>2. QED  BY <1>3, <2>1 DEF Using
  <1>7. CASE \/ OpenAbandon(s) \/ OpenPlan(s) \/ OpenNoIdle(s) \/ OpenRefusedAnswer(s)
             \/ OpenObserveFails(s) \/ OpenObserveAnswer(s) \/ OpenRemove(s) \/ OpenRetain(s)
    <2>1. pc'[s] \in {"closed", "retire", "acquire", "observeClose", "openRemove", "retain"}
      BY <1>0, <1>7 DEF TypeOK, Goto, Finish, OpenAbandon, OpenPlan, OpenNoIdle,
         OpenRefusedAnswer, OpenObserveFails, OpenObserveAnswer, OpenRemove, OpenRetain
    <2>2. QED  BY <1>2, <2>1 DEF Using
  <1>8. CASE OpenClaim(s)
    <2>1. PICK r \in Claimable(request[s].key) :
             ClaimIdle(request[s].key, r) /\ lease' = [lease EXCEPT ![s] = r]
      BY <1>8 DEF OpenClaim
    <2>2. r \in Resource /\ Registered(r) /\ rows[r].key = request[s].key
      BY <2>1 DEF Claimable
    <2>3. rows'[r].key = request[s].key
      <3>1. request[s].key \in Key  BY <1>0 DEF TypeOK
      <3>2. KeepsKeys  BY <1>0, <2>1, <2>2, <3>1, OperationsKeepKeys
      <3>3. Registered(r)'
        BY <1>0, <2>1, <2>2, <3>1, ClaimIdleRow DEF St
      <3>4. QED  BY <2>2, <3>2, <3>3 DEF KeepsKeys
    <2>4. pc'[s] = "lookup" /\ lease'[s] = r /\ request' = request
      BY <1>0, <1>8, <2>1 DEF OpenClaim, Goto, TypeOK
    <2>5. QED  BY <2>3, <2>4 DEF Keyed
  <1>9. CASE OpenLookup(s)
    <2>1. \/ pc'[s] = "closed"
          \/ pc[s] = "lookup" /\ pc'[s] = "observe" /\ UNCHANGED <<rows, lease, request>>
      BY <1>0, <1>9 DEF TypeOK, Goto, Finish, OpenLookup
    <2>2. QED  BY <1>2, <1>3, <2>1 DEF Using
  <1>10. CASE OpenAcquire(s)
    <2>1. PICK r \in Resource :
             /\ lease' = [lease EXCEPT ![s] = r] /\ UNCHANGED request
             /\ \/ /\ Opened(r, request[s].key, request[s].purpose, PolicyOf(request[s]))
                   /\ Goto(s, "observe")
                \/ Goto(s, "refusedClose")
      BY <1>10, Zenon DEF OpenAcquire
    <2>2. CASE Goto(s, "refusedClose")
      <3>1. pc'[s] = "refusedClose"  BY <1>0, <2>2 DEF Goto, TypeOK
      <3>2. QED  BY <1>2, <3>1 DEF Using
    <2>3. CASE /\ Opened(r, request[s].key, request[s].purpose, PolicyOf(request[s]))
               /\ Goto(s, "observe")
      <3>1. pc'[s] = "observe" /\ lease'[s] = r  BY <1>0, <2>1, <2>3 DEF Goto, TypeOK
      <3>2. rows'[r].key = request[s].key  BY <1>0, <2>3 DEF Opened, LedgerTypeOK
      <3>3. QED  BY <2>1, <3>1, <3>2 DEF Keyed
    <2>4. QED  BY <2>1, <2>2, <2>3
  <1>11. CASE OpenObserved(s) \/ OpenInsert(s)
    <2>1. /\ pc[s] \in {"observe", "insert"} /\ pc'[s] \in {"insert", "bind"}
          /\ UNCHANGED <<rows, lease, request>>
      BY <1>0, <1>11 DEF TypeOK, Goto, OpenObserved, OpenInsert
    <2>2. QED  BY <1>3, <2>1 DEF Using
  <1>12. CASE OpenBind(s)
    <2>1. pc[s] = "bind" /\ pc'[s] = "open" /\ UNCHANGED <<rows, lease, request>>
      BY <1>0, <1>12 DEF TypeOK, Goto, OpenBind
    <2>2. lease[s] \in mapped  BY <1>0, <2>1 DEF HandsMatch, Placed
    <2>3. bound'[s] = lease[s]  BY <1>0, <1>12, <2>2 DEF OpenBind, TypeOK
    <2>4. QED  BY <1>0, <2>1, <2>3 DEF Keyed, Registered, Using
  <1>13. CASE CloseReset(s)
    <2>1. PICK clean \in BOOLEAN :
             LET admits == request[s].purpose # "FixedSession"
             IN /\ Returning(lease[s], clean, admits)
                /\ Goto(s, IF ReturnParks(lease[s], clean, admits) THEN "parked" ELSE "unbind")
      BY <1>13 DEF CloseReset
    <2>2. pc[s] = "closing" /\ UNCHANGED <<lease, request, phys>>
      BY <1>13 DEF CloseReset, hostVars
    <2>3. lease[s] \in Resource /\ phys[lease[s]] = "open" /\ Registered(lease[s])
      <3>1. lease[s] \in Resource  BY <1>1, <2>2 DEF EmptyHanded
      <3>2. phys[lease[s]] = "open" /\ St(lease[s]) # "Gone"
        BY <1>0, <2>2 DEF HandsMatch, Using
      <3>3. QED  BY <3>1, <3>2 DEF St
    <2>4. rows[lease[s]].key = request[s].key  BY <1>0, <2>2, <2>3 DEF Keyed, Using
    <2>5. CASE pc'[s] = "unbind"  BY <2>2, <2>3, <2>5 DEF Keyed, Using
    <2>6. CASE pc'[s] = "parked"
      <3>1. \E admits : ReturnParks(lease[s], clean, admits)
        BY <1>0, <2>1, <2>6 DEF Goto, TypeOK
      <3>2. pools[request[s].key] = "stateful"  BY <2>4, <3>1 DEF ReturnParks, PoolParks
      <3>3. request[s].key \in Key  BY <1>0 DEF TypeOK
      <3>4. ~Plain(s)  BY <1>0, <3>2, <3>3 DEF Poolable, Plain
      <3>5. KeepsKeys  BY <1>0, <2>1, <2>3, OperationsKeepKeys
      <3>6. Registered(lease[s])' => rows'[lease[s]].key = request[s].key
        BY <2>2, <2>3, <2>4, <3>5 DEF KeepsKeys, Registered
      <3>7. QED  BY <2>2, <2>6, <3>4, <3>6 DEF Keyed, Plain, Registered
    <2>7. QED  BY <1>0, <2>1, <2>5, <2>6 DEF Goto, TypeOK
  <1>14. CASE CloseUnresolved(s) \/ CloseParked(s) \/ CloseUnbind(s) \/ CloseAnswer(s) \/ CloseRemove(s)
    <2>1. pc'[s] \in {"closed", "close", "closeRemove"}
      BY <1>0, <1>14 DEF TypeOK, Goto, Finish, CloseUnresolved, CloseParked, CloseUnbind,
         CloseAnswer, CloseRemove
    <2>2. QED  BY <1>2, <2>1 DEF Using
  <1>15. QED
    BY <1>4, <1>5, <1>6, <1>7, <1>8, <1>9, <1>10, <1>11, <1>12, <1>13, <1>14 DEF Open, Close

\* Every step keeps it.
LEMMA PooledStep == Inv /\ Pooled /\ [Next]_vars => Pooled'
  <1> SUFFICES ASSUME Inv, Pooled, [Next]_vars PROVE Pooled'
    OBVIOUS
  <1>0. KeepsKeys \/ \E s \in Session : OpenAcquire(s)  BY StepsKeepKeys
  <1>1. Poolable'
    <2>1. CASE KeepsKeys  BY <2>1 DEF KeepsKeys, Pooled, Poolable
    <2>2. ASSUME NEW s \in Session, OpenAcquire(s) PROVE Poolable'
      <3>1. /\ TypeOK /\ LedgerTypeOK /\ Poolable /\ request[s].key \in Key
        BY DEF Inv, TypeOK, Pooled
      <3>2. \/ pools' = pools
            \/ pools' = [pools EXCEPT ![request[s].key] = PolicyOf(request[s])]
        BY <2>2, Zenon DEF OpenAcquire, Opened
      <3>3. PolicyOf(request[s]) = "stateful" => ConnectionOf[request[s].key] \in Reusable
        BY DEF PolicyOf
      <3>4. QED  BY <3>1, <3>2, <3>3 DEF Poolable, LedgerTypeOK
    <2>3. QED  BY <1>0, <2>1, <2>2
  <1>2. ASSUME NEW s \in Session PROVE Keyed(s)'
    <2>1. Keyed(s) /\ (pc[s] = "unbind" => phys'[lease[s]] = phys[lease[s]])
      BY UnboundStaysOpen DEF Pooled
    <2>2. CASE Undisturbed(s)  BY <1>0, <2>1, <2>2, UndisturbedKeyed
    <2>3. CASE ~Undisturbed(s)
      <3>1. \/ Retire(s) \/ Open(s) \/ CloseBegin(s) \/ Close(s)
            \/ \E k \in Key, p \in Purpose : OpenBegin(s, k, p)
        BY <2>3, OwnOrUndisturbed
      <3>2. KeepsKeys \/ OpenAcquire(s)
        <4>1. ASSUME NEW u \in Session, OpenAcquire(u), u # s PROVE Undisturbed(s)
          <5>1. TypeOK /\ s \in Task /\ u \in Task  BY DEF Inv, Task
          <5>2. QED  BY <4>1, <5>1 DEF OpenAcquire, Goto, Undisturbed, TypeOK
        <4>2. QED  BY <1>0, <2>3, <4>1
      <3>3. QED  BY <3>1, <3>2, OwnKeyed
    <2>4. QED  BY <2>2, <2>3
  <1>3. QED  BY <1>1, <1>2 DEF Pooled

\* So it always holds.
LEMMA PooledHolds == Spec => []Pooled
  <1>1. ASSUME Init PROVE Pooled
    <2>1. Poolable  BY <1>1 DEF Init, LedgerInit, Poolable
    <2>2. ASSUME NEW s \in Session PROVE Keyed(s)
      <3>1. pc[s] = "closed"  BY <1>1, DesktopAssumption DEF Init, Task
      <3>2. QED  BY <3>1 DEF Keyed, Using
    <2>3. QED  BY <2>1, <2>2 DEF Pooled
  <1>2. QED  BY <1>1, PooledStep, InvHolds, PTL DEF Spec

\* Where nothing can be parked, what by_session names is in the table and open.
THEOREM BindingsDoNotDangle == Spec => []BindingNeverDangles
  <1>1. ASSUME Inv, Bindings, Pooled, NEW s \in Session, Plain(s), bound[s] # NoResource
        PROVE  bound[s] \in mapped /\ phys[bound[s]] = "open"
    <2>1. HandsMatch(s) /\ Keyed(s) /\ BindingMatches(s)
      BY <1>1 DEF Inv, Task, Pooled, Bindings
    <2>2. bound[s] = lease[s] /\ pc[s] \in {"open", "closing", "unbind"}
      BY <1>1, <2>1 DEF BindingMatches, Keyed
    <2>3. QED  BY <2>1, <2>2 DEF HandsMatch, Using, Placed, Keyed
  <1>2. Inv /\ Bindings /\ Pooled => BindingNeverDangles  BY <1>1 DEF BindingNeverDangles
  <1>3. QED  BY <1>2, InvHolds, BindingsHold, PooledHolds, PTL

\* Where nothing can be parked, an open session stays bound to its connection until its
\* own close.
THEOREM OpenSessionsStayBound == Spec => []OpenSessionStaysBound
  <1>1. Pooled => OpenSessionStaysBound  BY DEF Pooled, Keyed, OpenSessionStaysBound
  <1>2. QED  BY <1>1, PooledHolds, PTL

--------------------------------------------------------------------------------
(* A row and its connection.                                                    *)

\* Of the ledger's operations only a confirmed close removes a row, and the host
\* reports one only together with the driver's answer.
LEMMA RowLeaves ==
    ASSUME Inv, [Next]_vars, NEW r \in Resource, St(r) # "Gone", St(r)' = "Gone"
    PROVE  phys'[r] = "absent"
  <1>0. LedgerTypeOK /\ TypeOK /\ (\A s \in Session : s \in Task)  BY DEF Inv, TypeOK, Task
  <1>1. ASSUME NEW o \in Resource, NEW confirmed \in BOOLEAN,
               DriverClose(o, confirmed), Closed(o, confirmed)
        PROVE  phys'[r] = "absent"
    <2>1. OthersSame(o) /\ St(o)' = IF confirmed THEN "Gone" ELSE "Quarantined"
      BY <1>0, <1>1, ClosedConfirmedRow, ClosedUnconfirmedRow
    <2>2. r = o /\ confirmed  BY <2>1 DEF OthersSame, Same
    <2>3. QED  BY <1>0, <1>1, <2>2 DEF DriverClose, TypeOK
  <1>2. UNCHANGED rows => FALSE  BY DEF St, Registered
  <1>3. \A o \in Resource : \A clean, admits : ~Returning(o, clean, admits)
    BY <1>0, ReturningRow DEF OthersSame, Same
  <1>4. ASSUME NEW k, IdleToRetire(k) PROVE FALSE
    <2>1. \A o \in Resource \ RetireBatch(k) : Same(o)  BY <1>0, <1>4, IdleToRetireRows
    <2>2. r \in RetireBatch(k)  BY <2>1 DEF Same
    <2>3. Idle(r) /\ (St(r) = "Acquired" => St(r)' = "Closing")
      BY <1>0, <1>4, <2>2, IdleToRetireRows
    <2>4. QED  BY <2>3 DEF Inv, ResourceMatches
  <1>5. ASSUME NEW t \in Task, Retire(t) PROVE phys'[r] = "absent"
    <2>1. CASE RetireAnswer(t)
      <3>1. lease[t] \in Resource  BY <2>1, InHand DEF RetireAnswer, EmptyHanded
      <3>2. QED  BY <1>1, <2>1, <3>1 DEF RetireAnswer
    <2>2. CASE RetireNext(t)
      <3>1. batch[t] \subseteq Resource  BY <1>0 DEF TypeOK
      <3>2. QED  BY <1>2, <1>3, <2>2, <3>1 DEF RetireNext
    <2>3. CASE RetireRemove(t) \/ RetireDone(t)
      BY <1>2, <2>3 DEF RetireRemove, RetireDone
    <2>4. QED  BY <1>5, <2>1, <2>2, <2>3 DEF Retire
  <1>6. ASSUME NEW s \in Session, Open(s) PROVE phys'[r] = "absent"
    <2>1. CASE OpenObserveAnswer(s)
      <3>1. lease[s] \in Resource  BY <1>0, <2>1, InHand DEF OpenObserveAnswer, EmptyHanded
      <3>2. QED  BY <1>1, <2>1, <3>1 DEF OpenObserveAnswer
    <2>2. CASE OpenObserveFails(s)
      <3>1. lease[s] \in Resource  BY <1>0, <2>2, InHand DEF OpenObserveFails, EmptyHanded
      <3>2. QED  BY <1>3, <2>2, <3>1 DEF OpenObserveFails
    <2>3. CASE OpenPlan(s)  BY <1>4, <2>3 DEF OpenPlan
    <2>4. CASE OpenClaim(s)
      <3>1. request[s].key \in Key  BY <1>0 DEF TypeOK
      <3>2. PICK o \in Claimable(request[s].key) : ClaimIdle(request[s].key, o)
        BY <2>4 DEF OpenClaim
      <3>3. OthersSame(o) /\ St(o)' = "InUse" /\ o \in Resource
        BY <1>0, <3>1, <3>2, ClaimIdleRow DEF Claimable
      <3>4. QED  BY <3>3 DEF OthersSame, Same
    <2>5. CASE OpenAcquire(s)
      <3>1. request[s].key \in Key /\ request[s].purpose \in Purpose
            /\ PolicyOf(request[s]) \in Policy
        BY <1>0 DEF TypeOK, PolicyOf, Policy
      <3>2. PICK o \in Resource :
               Opened(o, request[s].key, request[s].purpose, PolicyOf(request[s]))
        BY <1>2, <2>5 DEF OpenAcquire
      <3>3. OthersSame(o) /\ St(o)' = "Acquired"
        BY <1>0, <3>1, <3>2, OpenedRow
      <3>4. QED  BY <3>3 DEF OthersSame, Same
    <2>6. CASE OpenAbandon(s) \/ OpenNoIdle(s) \/ OpenLookup(s) \/ OpenRefusedAnswer(s)
               \/ OpenObserved(s) \/ OpenRemove(s) \/ OpenRetain(s) \/ OpenInsert(s) \/ OpenBind(s)
      BY <1>2, <2>6 DEF OpenAbandon, OpenNoIdle, OpenLookup, OpenRefusedAnswer, OpenObserved,
                        OpenRemove, OpenRetain, OpenInsert, OpenBind
    <2>7. QED  BY <1>6, <2>1, <2>2, <2>3, <2>4, <2>5, <2>6 DEF Open
  <1>7. ASSUME NEW s \in Session, Execute(s) PROVE FALSE
    <2>1. lease[s] \in Resource  BY <1>0, <1>7, InHand DEF Execute, EmptyHanded
    <2>2. OthersSame(lease[s]) /\ \A o \in Resource : o = lease[s] => St(o)' = "InUse"
      BY <1>0, <1>7, <2>1, ExecutingRow DEF Execute
    <2>3. QED  BY <2>2 DEF OthersSame, Same
  <1>8. ASSUME NEW s \in Session, Close(s) PROVE phys'[r] = "absent"
    <2>1. CASE CloseAnswer(s)
      <3>1. lease[s] \in Resource  BY <1>0, <2>1, InHand DEF CloseAnswer, EmptyHanded
      <3>2. QED  BY <1>1, <2>1, <3>1 DEF CloseAnswer
    <2>2. CASE CloseUnresolved(s) \/ CloseReset(s)
      <3>1. lease[s] \in Resource
        BY <1>0, <2>2, InHand DEF CloseUnresolved, CloseReset, EmptyHanded
      <3>2. QED  BY <1>3, <2>2, <3>1 DEF CloseUnresolved, CloseReset
    <2>3. CASE CloseParked(s) \/ CloseUnbind(s) \/ CloseRemove(s)
      BY <1>2, <2>3 DEF CloseParked, CloseUnbind, CloseRemove
    <2>4. QED  BY <1>8, <2>1, <2>2, <2>3 DEF Close
  <1>9. ASSUME Reclaim PROVE phys'[r] = "absent"
    <2>1. CASE VerifyAnswer
      <3>1. lease[Reclaimer] \in Resource
        BY <2>1, InHand DEF VerifyAnswer, EmptyHanded, Task
      <3>2. QED  BY <1>1, <2>1, <3>1 DEF VerifyAnswer
    <2>2. CASE Sweep  BY <1>4, <2>2 DEF Sweep
    <2>3. CASE VerifyPlan
      BY <1>0, <2>3, QuarantineToVerifyRows DEF VerifyPlan, Same
    <2>4. CASE VerifyNext \/ VerifyRemove \/ VerifyDone
      BY <1>2, <2>4 DEF VerifyNext, VerifyRemove, VerifyDone
    <2>5. QED  BY <1>9, <2>1, <2>2, <2>3, <2>4 DEF Reclaim
  <1>10. ASSUME NEW o \in Resource, Elapse(o) PROVE FALSE
    BY <1>0, <1>10, ClockRow DEF Elapse, OthersSame, Same
  <1>11. (\E s \in Session, k \in Key, p \in Purpose : OpenBegin(s, k, p))
         \/ (\E s \in Session : CloseBegin(s)) \/ UNCHANGED vars => FALSE
    BY <1>2 DEF OpenBegin, CloseBegin, vars
  <1>12. QED  BY <1>5, <1>6, <1>7, <1>8, <1>9, <1>10, <1>11 DEF Next

\* A row is given up only when its connection is confirmed gone.
THEOREM RowsOutliveConnections == Spec => RowOutlivesConnection
  <1>1. Inv /\ [Next]_vars =>
          [\A r \in Resource : Registered(r) /\ rows'[r] = NoRow => phys'[r] = "absent"]_vars
    <2> SUFFICES ASSUME Inv, [Next]_vars, NEW r \in Resource, Registered(r), rows'[r] = NoRow
                 PROVE  phys'[r] = "absent"
      OBVIOUS
    <2>1. St(r) # "Gone"  BY LedgerAssumption DEF Inv, TypeOK, LedgerTypeOK, St,
                             Registered, Row, LeaseState
    <2>2. St(r)' = "Gone"  BY DEF St, Registered
    <2>3. QED  BY <2>1, <2>2, RowLeaves
  <1>2. QED  BY <1>1, InvHolds, PTL DEF Spec, RowOutlivesConnection

--------------------------------------------------------------------------------
(* The host implements LeaseCustody.                                            *)

owner == [r \in Resource |-> OwnerOf(r)]

\* Who has a connection that no session uses.
Spare(r) == IF phys[r] = "absent" THEN "free" ELSE IF Idle(r) THEN "pool" ELSE "host"

OwnersAre ==
    \A r \in Resource : /\ \A s \in Session : Uses(s, r) => OwnerOf(r) = s
                        /\ (\A s \in Session : ~Uses(s, r)) => OwnerOf(r) = Spare(r)

LEMMA OwnerFacts == Inv => OwnersAre
  <1> SUFFICES ASSUME Inv, NEW r \in Resource
               PROVE  /\ \A s \in Session : Uses(s, r) => OwnerOf(r) = s
                      /\ (\A s \in Session : ~Uses(s, r)) => OwnerOf(r) = Spare(r)
    BY DEF OwnersAre
  <1>1. ASSUME NEW s \in Session, Uses(s, r) PROVE OwnerOf(r) = s
    <2>1. \A u \in Session : Uses(u, r) => u = s
      BY <1>1 DEF Inv, Exclusive, Claims, Holds, Uses, Using, Task
    <2>2. (CHOOSE u \in Session : Uses(u, r)) = s  BY <1>1, <2>1
    <2>3. QED  BY <1>1, <2>2 DEF OwnerOf
  <1>2. (\A s \in Session : ~Uses(s, r)) => OwnerOf(r) = Spare(r)
    BY DEF OwnerOf, Spare
  <1>3. QED  BY <1>1, <1>2

LEMMA OwnerFactsNext == Inv' => OwnersAre'
  BY OwnerFacts, PTL

\* A step moves task t on, and changes at most what the host knows of r.
MovesOnly(t, R) ==
    /\ \A u \in Task \ {t} : pc'[u] = pc[u] /\ lease'[u] = lease[u]
    /\ \A o \in Resource \ R : /\ phys'[o] = "absent" <=> phys[o] = "absent"
                               /\ Idle(o)' <=> Idle(o)
                               /\ t \in Session => (Uses(t, o)' <=> Uses(t, o))

LEMMA OwnersStay ==
    ASSUME Inv, Inv', NEW t \in Task, NEW R, MovesOnly(t, R),
           NEW o \in Resource \ R
    PROVE  OwnerOf(o)' = OwnerOf(o)
  <1>1. \A u \in Session : Uses(u, o)' <=> Uses(u, o)
    BY DEF MovesOnly, Uses, Task
  <1>2. CASE \E u \in Session : Uses(u, o)
    BY <1>1, <1>2, OwnerFacts, OwnerFactsNext DEF OwnersAre
  <1>3. CASE \A u \in Session : ~Uses(u, o)
    <2>1. Spare(o)' = Spare(o)
      BY DEF MovesOnly, Spare
    <2>2. QED  BY <1>1, <1>3, <2>1, OwnerFacts, OwnerFactsNext DEF OwnersAre
  <1>4. QED  BY <1>2, <1>3

LEMMA CustodyPass ==
    ASSUME Inv, Inv', NEW t \in Task, NEW r \in Resource, MovesOnly(t, {r}),
           NEW from, NEW to, OwnerOf(r) = from, OwnerOf(r)' = to
    PROVE  Custody!Pass(r, from, to) \/ (from = to /\ owner' = owner)
  <1>1. \A o \in Resource \ {r} : OwnerOf(o)' = OwnerOf(o)  BY OwnersStay
  <1>2. QED  BY <1>1 DEF Custody!Pass, owner

\* Steps that pass nothing on.
LEMMA QuietMove ==
    ASSUME Inv, Inv', NEW t \in Task,
           \A u \in Task \ {t} : pc'[u] = pc[u] /\ lease'[u] = lease[u],
           UNCHANGED phys, \A o \in Resource : Idle(o)' <=> Idle(o),
           \/ pc[t] \in Using /\ pc'[t] \in Using /\ lease'[t] = lease[t]
           \/ pc[t] \notin Using /\ pc'[t] \notin Using
    PROVE  owner' = owner
  <1>1. MovesOnly(t, {})  BY DEF MovesOnly, Uses
  <1>2. \A o \in Resource : OwnerOf(o)' = OwnerOf(o)  BY <1>1, OwnersStay
  <1>3. QED  BY <1>2 DEF owner

LEMMA QuietStep ==
    ASSUME Inv, Inv',
           \/ \E t \in Task : RetireNext(t) \/ RetireRemove(t) \/ RetireDone(t)
           \/ \E s \in Session, k \in Key, p \in Purpose : OpenBegin(s, k, p)
           \/ \E s \in Session : \/ OpenAbandon(s) \/ OpenNoIdle(s) \/ OpenLookup(s)
                                 \/ OpenObserved(s) \/ OpenRemove(s) \/ OpenRetain(s)
                                 \/ OpenInsert(s) \/ OpenBind(s)
           \/ \E s \in Session : \/ Execute(s) \/ CloseBegin(s) \/ CloseParked(s)
                                 \/ CloseUnbind(s) \/ CloseRemove(s)
           \/ VerifyPlan \/ VerifyNext \/ VerifyRemove \/ VerifyDone
           \/ \E r \in Resource : Elapse(r)
    PROVE  owner' = owner
  <1> USE DEF Using, Goto
  <1>0. /\ TypeOK /\ LedgerTypeOK /\ Reclaimer \in Task
        /\ \A s \in Session : s \in Task /\ HandsMatch(s)
    BY DEF Inv, TypeOK, Task
  <1>a. UNCHANGED rows => \A o \in Resource : Idle(o)' <=> Idle(o)  BY DEF Idle, Registered
  <1>1. ASSUME NEW t \in Task, RetireNext(t) \/ RetireRemove(t) \/ RetireDone(t)
        PROVE  owner' = owner
    <2>1. CASE RetireNext(t)
      <3>1. PICK r \in batch[t] : Returning(r, FALSE, TRUE) \/ UNCHANGED rows
        BY <2>1 DEF RetireNext
      <3>2. r \in Resource  BY <1>0 DEF TypeOK
      <3>3. \A o \in Resource : Idle(o)' <=> Idle(o)
        BY <1>0, <1>a, <3>1, <3>2, ReturningRow DEF ReturnParks, OthersSame, Same
      <3>4. pc[t] = "retire" /\ pc'[t] \in {"retire", "retireClose"} /\ UNCHANGED phys
        BY <1>0, <2>1 DEF RetireNext, hostVars, TypeOK
      <3>5. \A u \in Task \ {t} : pc'[u] = pc[u] /\ lease'[u] = lease[u]
        BY <1>0, <2>1, ZenonT(60) DEF RetireNext, TypeOK
      <3>6. QED  BY <3>3, <3>4, <3>5, QuietMove
    <2>2. CASE RetireRemove(t) \/ RetireDone(t)
      <3>1. /\ pc[t] \in Retiring /\ pc'[t] \in {"retire", "claim", "verifyPlan"}
            /\ UNCHANGED <<rows, phys>>
            /\ \A u \in Task \ {t} : pc'[u] = pc[u] /\ lease'[u] = lease[u]
        BY <1>0, <2>2 DEF RetireRemove, RetireDone, hostVars, TypeOK, Retiring
      <3>2. QED  BY <1>a, <3>1, QuietMove DEF Retiring
    <2>3. QED  BY <1>1, <2>1, <2>2
  <1>2. ASSUME NEW s \in Session, NEW k \in Key, NEW p \in Purpose, OpenBegin(s, k, p)
        PROVE  owner' = owner
    <2>1. /\ pc[s] = "closed" /\ pc'[s] = "plan" /\ UNCHANGED <<rows, phys>>
          /\ \A u \in Task \ {s} : pc'[u] = pc[u] /\ lease'[u] = lease[u]
      BY <1>0, <1>2 DEF OpenBegin, TypeOK
    <2>2. QED  BY <1>0, <1>a, <2>1, QuietMove
  <1>3. ASSUME NEW s \in Session,
               \/ OpenAbandon(s) \/ OpenRemove(s) \/ OpenRetain(s) \/ CloseParked(s)
               \/ CloseUnbind(s) \/ CloseRemove(s) \/ OpenNoIdle(s)
        PROVE  owner' = owner
    <2>1. /\ pc[s] \in {"plan", "acquire", "openRemove", "retain", "parked", "unbind",
                        "closeRemove", "claim"}
          /\ pc'[s] \in {"closed", "close", "acquire"} /\ UNCHANGED <<rows, phys>>
          /\ \A u \in Task \ {s} : pc'[u] = pc[u] /\ lease'[u] = lease[u]
      BY <1>0, <1>3 DEF OpenAbandon, OpenRemove, OpenRetain, CloseParked, CloseUnbind,
                        CloseRemove, OpenNoIdle, Finish, TypeOK, hostVars
    <2>2. QED  BY <1>0, <1>a, <2>1, QuietMove
  <1>4. ASSUME NEW s \in Session,
               \/ OpenLookup(s) \/ OpenObserved(s) \/ OpenInsert(s) \/ OpenBind(s)
               \/ CloseBegin(s)
        PROVE  owner' = owner
    <2>1. pc[s] = "lookup" => lease[s] \in mapped  BY <1>0 DEF HandsMatch, Placed
    <2>2. /\ pc[s] \in Using /\ pc'[s] \in Using /\ UNCHANGED <<rows, phys, lease>>
          /\ \A u \in Task \ {s} : pc'[u] = pc[u]
      BY <1>0, <1>4, <2>1 DEF OpenLookup, OpenObserved, OpenInsert, OpenBind, CloseBegin,
                              TypeOK, hostVars
    <2>3. QED  BY <1>0, <1>a, <2>2, QuietMove
  <1>5. ASSUME NEW s \in Session, Execute(s) PROVE owner' = owner
    <2>1. lease[s] \in Resource  BY <1>0, <1>5, InHand DEF Execute, EmptyHanded
    <2>2. \A o \in Resource : Idle(o)' <=> Idle(o)
      <3>1. OthersSame(lease[s]) /\ \A o \in Resource : o = lease[s] => Idle(o)' = Idle(o)
        BY <1>0, <1>5, <2>1, ExecutingRow DEF Execute
      <3>2. QED  BY <3>1 DEF OthersSame, Same
    <2>3. pc[s] = "open" /\ UNCHANGED <<phys, pc, lease>>
      BY <1>5 DEF Execute, hostVars, taskVars
    <2>4. QED  BY <1>0, <2>2, <2>3, QuietMove
  <1>6. ASSUME VerifyPlan PROVE owner' = owner
    <2>1. \A o \in Resource : Idle(o)' <=> Idle(o)
      BY <1>0, <1>6, QuarantineToVerifyRows DEF VerifyPlan, Same
    <2>2. /\ pc[Reclaimer] = "verifyPlan" /\ pc'[Reclaimer] = "verify" /\ UNCHANGED <<phys, lease>>
          /\ \A u \in Task \ {Reclaimer} : pc'[u] = pc[u]
      BY <1>0, <1>6 DEF VerifyPlan, hostVars, TypeOK
    <2>3. QED  BY <1>0, <2>1, <2>2, QuietMove
  <1>7. ASSUME VerifyNext \/ VerifyRemove \/ VerifyDone PROVE owner' = owner
    <2>1. /\ pc[Reclaimer] \in Verifying /\ pc'[Reclaimer] \in {"verify", "verifyClose", "idle"}
          /\ UNCHANGED <<rows, phys>>
          /\ \A u \in Task \ {Reclaimer} : pc'[u] = pc[u] /\ lease'[u] = lease[u]
      BY <1>0, <1>7 DEF VerifyNext, VerifyRemove, VerifyDone, hostVars, TypeOK, Verifying
    <2>2. QED  BY <1>0, <1>a, <2>1, QuietMove DEF Verifying
  <1>8. ASSUME NEW r \in Resource, Elapse(r) PROVE owner' = owner
    <2>1. \A o \in Resource : Idle(o)' <=> Idle(o)
      BY <1>0, <1>8, ClockRow DEF Elapse, OthersSame, Same
    <2>2. UNCHANGED <<phys, pc, lease>>  BY <1>8 DEF Elapse, hostVars, taskVars
    <2>3. QED  BY <1>0, <2>1, <2>2, QuietMove
  <1>9. QED  BY <1>1, <1>2, <1>3, <1>4, <1>5, <1>6, <1>7, <1>8

\* A driver answers a close: the connection is the host's until it is really gone.
LEMMA SettleStep ==
    ASSUME Inv, Inv',
           \/ \E t \in Task : RetireAnswer(t)
           \/ \E s \in Session : OpenRefusedAnswer(s) \/ OpenObserveAnswer(s) \/ CloseAnswer(s)
           \/ VerifyAnswer
    PROVE  [Custody!Next]_owner
  <1>1. ASSUME NEW t \in Task,
               pc[t] \in {"retireClose", "refusedClose", "observeClose", "close", "verifyClose"},
               NEW confirmed \in BOOLEAN, DriverClose(lease[t], confirmed),
               UNCHANGED rows \/ Closed(lease[t], confirmed),
               pc'[t] \notin Using,
               \A u \in Task \ {t} : pc'[u] = pc[u] /\ lease'[u] = lease[u]
        PROVE  [Custody!Next]_owner
    <2>1. PICK r \in Resource : r = lease[t]  BY <1>1, InHand DEF EmptyHanded
    <2>2. Holds(t, r) /\ HandsMatch(t) /\ ResourceMatches(r) /\ LedgerTypeOK
      BY <1>1, <2>1 DEF Holds, Inv, TypeOK
    <2>3. /\ phys'[r] = IF confirmed THEN "absent" ELSE "unsure"
          /\ \A o \in Resource \ {r} : phys'[o] = phys[o]
      BY <1>1, <2>1 DEF DriverClose, Inv, TypeOK
    <2>4. ~Idle(r) /\ phys[r] # "absent"
      BY <1>1, <2>1, <2>2 DEF HandsMatch, ResourceMatches, Claims, Ending
    <2>5. ~Idle(r)' /\ \A o \in Resource \ {r} : Idle(o)' <=> Idle(o)
      <3>1. CASE UNCHANGED rows  BY <2>4, <3>1 DEF Idle, Registered
      <3>2. CASE Closed(r, confirmed)
        BY <2>2, <3>2, ClosedConfirmedRow, ClosedUnconfirmedRow DEF OthersSame, Same
      <3>3. QED  BY <1>1, <2>1, <3>1, <3>2
    <2>6. \A s \in Session : ~Uses(s, r)
      BY <1>1, <2>2 DEF Inv, Exclusive, Claims, Holds, Uses, Using, Task
    <2>7. \A s \in Session : ~Uses(s, r)'
      BY <1>1, <2>6 DEF Uses, Task
    <2>8. OwnerOf(r) = "host"
      BY <2>4, <2>6, OwnerFacts DEF OwnersAre, Spare
    <2>9. OwnerOf(r)' = IF confirmed THEN "free" ELSE "host"
      <3>1. OwnerOf(r)' = Spare(r)'  BY <2>7, OwnerFactsNext DEF OwnersAre
      <3>2. QED  BY <2>3, <2>5, <3>1 DEF Spare
    <2>10. MovesOnly(t, {r})
      BY <1>1, <2>1, <2>3, <2>5 DEF MovesOnly, Uses, Using
    <2>11. Custody!Settle(r) \/ owner' = owner
      <3>1. CASE confirmed
        BY <2>8, <2>9, <2>10, <3>1, CustodyPass DEF Custody!Settle
      <3>2. CASE ~confirmed
        <4>1. OwnerOf(r)' = OwnerOf(r)  BY <2>8, <2>9, <3>2
        <4>2. QED  BY <2>10, <4>1, OwnersStay DEF owner
      <3>3. QED  BY <3>1, <3>2
    <2>12. QED  BY <2>11 DEF Custody!Next
  <1>2. TypeOK /\ Reclaimer \in Task /\ (\A s \in Session : s \in Task)
    BY DEF Inv, Task
  <1>3. ASSUME NEW t \in Task, RetireAnswer(t) PROVE [Custody!Next]_owner
    <2>1. PICK confirmed \in BOOLEAN : DriverClose(lease[t], confirmed) /\ Closed(lease[t], confirmed)
      BY <1>3 DEF RetireAnswer
    <2>2. /\ pc[t] = "retireClose" /\ pc'[t] \in {"retireRemove", "retire"}
          /\ \A u \in Task \ {t} : pc'[u] = pc[u] /\ lease'[u] = lease[u]
      BY <1>2, <1>3 DEF RetireAnswer, Goto, TypeOK
    <2>3. QED  BY <1>1, <2>1, <2>2 DEF Using
  <1>4. ASSUME NEW s \in Session, OpenRefusedAnswer(s) PROVE [Custody!Next]_owner
    <2>1. PICK confirmed \in BOOLEAN : DriverClose(lease[s], confirmed)
      BY <1>4 DEF OpenRefusedAnswer
    <2>2. /\ pc[s] = "refusedClose" /\ pc'[s] = "closed" /\ UNCHANGED rows
          /\ \A u \in Task \ {s} : pc'[u] = pc[u] /\ lease'[u] = lease[u]
      BY <1>2, <1>4 DEF OpenRefusedAnswer, Finish, Goto, TypeOK
    <2>3. QED  BY <1>1, <1>2, <2>1, <2>2 DEF Using
  <1>5. ASSUME NEW s \in Session, OpenObserveAnswer(s) \/ CloseAnswer(s)
        PROVE  [Custody!Next]_owner
    <2>1. PICK confirmed \in BOOLEAN : DriverClose(lease[s], confirmed) /\ Closed(lease[s], confirmed)
      BY <1>5 DEF OpenObserveAnswer, CloseAnswer
    <2>2. /\ pc[s] \in {"observeClose", "close"}
          /\ pc'[s] \in {"openRemove", "retain", "closeRemove", "closed"}
          /\ \A u \in Task \ {s} : pc'[u] = pc[u] /\ lease'[u] = lease[u]
      BY <1>2, <1>5 DEF OpenObserveAnswer, CloseAnswer, Goto, TypeOK
    <2>3. QED  BY <1>1, <1>2, <2>1, <2>2 DEF Using
  <1>6. ASSUME VerifyAnswer PROVE [Custody!Next]_owner
    <2>1. PICK confirmed \in BOOLEAN :
             DriverClose(lease[Reclaimer], confirmed) /\ Closed(lease[Reclaimer], confirmed)
      BY <1>6 DEF VerifyAnswer
    <2>2. /\ pc[Reclaimer] = "verifyClose" /\ pc'[Reclaimer] \in {"verifyRemove", "verify"}
          /\ \A u \in Task \ {Reclaimer} : pc'[u] = pc[u] /\ lease'[u] = lease[u]
      BY <1>2, <1>6 DEF VerifyAnswer, Goto, TypeOK
    <2>3. QED  BY <1>1, <1>2, <2>1, <2>2 DEF Using
  <1>7. QED  BY <1>3, <1>4, <1>5, <1>6

\* The session that uses a connection parks it or gives it up to be closed.
LEMMA ReleaseStep ==
    ASSUME Inv, Inv', NEW s \in Session,
           OpenObserveFails(s) \/ CloseUnresolved(s) \/ CloseReset(s)
    PROVE  [Custody!Next]_owner
  <1>1. /\ TypeOK /\ LedgerTypeOK /\ s \in Task /\ HandsMatch(s)
        /\ pc[s] \in {"observe", "closing"}
    BY DEF Inv, TypeOK, Task, OpenObserveFails, CloseUnresolved, CloseReset
  <1>2. PICK r \in Resource : r = lease[s]  BY <1>1, InHand DEF EmptyHanded
  <1>3. Uses(s, r) /\ phys[r] = "open" /\ ~Idle(r)
    BY <1>1, <1>2 DEF HandsMatch, Uses, Using
  <1>4. PICK clean \in BOOLEAN, admits \in BOOLEAN : Returning(r, clean, admits)
    BY <1>2 DEF OpenObserveFails, CloseUnresolved, CloseReset
  <1>5. /\ pc'[s] \notin Using /\ UNCHANGED <<phys, lease>>
        /\ \A u \in Task \ {s} : pc'[u] = pc[u]
    BY <1>1 DEF OpenObserveFails, CloseUnresolved, CloseReset, Goto, TypeOK, hostVars, Using
  <1>6. \A o \in Resource \ {r} : Idle(o)' <=> Idle(o)
    BY <1>1, <1>4, ReturningRow DEF OthersSame, Same
  <1>7. \A u \in Session : ~Uses(u, r)'
    BY <1>1, <1>2, <1>3, <1>5 DEF Inv, Exclusive, Claims, Holds, Uses, Using, Task
  <1>8. OwnerOf(r) = s  BY <1>3, OwnerFacts DEF OwnersAre
  <1>9. OwnerOf(r)' \in {"pool", "host"}
    <2>1. OwnerOf(r)' = Spare(r)'  BY <1>7, OwnerFactsNext DEF OwnersAre
    <2>2. QED  BY <1>3, <1>5, <2>1 DEF Spare
  <1>10. MovesOnly(s, {r})
    BY <1>2, <1>5, <1>6 DEF MovesOnly, Uses
  <1>11. s \notin {"pool", "host"}  BY DesktopAssumption
  <1>12. Custody!Park(s, r) \/ Custody!Surrender(s, r)
    BY <1>1, <1>8, <1>9, <1>10, <1>11, CustodyPass DEF Custody!Park, Custody!Surrender
  <1>13. QED  BY <1>12 DEF Custody!Next

\* An opening session gets a connection out of the pool or a new one.
LEMMA ObtainStep ==
    ASSUME Inv, Inv', NEW s \in Session, OpenClaim(s) \/ OpenAcquire(s)
    PROVE  [Custody!Next]_owner
  <1>1. TypeOK /\ LedgerTypeOK /\ s \in Task /\ pc[s] \notin Using
    BY DEF Inv, TypeOK, Task, OpenClaim, OpenAcquire, Using
  <1>2. CASE OpenClaim(s)
    <2>1. request[s].key \in Key  BY <1>1 DEF TypeOK
    <2>2. PICK r \in Claimable(request[s].key) :
             ClaimIdle(request[s].key, r) /\ lease' = [lease EXCEPT ![s] = r]
      BY <1>2 DEF OpenClaim
    <2>3. r \in Resource  BY DEF Claimable
    <2>4. Idle(r) /\ OthersSame(r)  BY <1>1, <2>1, <2>2, <2>3, ClaimIdleRow
    <2>5. /\ pc'[s] = "lookup" /\ lease'[s] = r /\ UNCHANGED phys
          /\ \A u \in Task \ {s} : pc'[u] = pc[u] /\ lease'[u] = lease[u]
      BY <1>1, <1>2, <2>2 DEF OpenClaim, Goto, TypeOK, hostVars
    <2>6. phys[r] = "open" /\ \A u \in Session : ~Uses(u, r)
      BY <2>3, <2>4 DEF Inv, ResourceMatches, Claims, Holds, Uses, Using, Task
    <2>7. OwnerOf(r) = "pool"  BY <2>3, <2>4, <2>6, OwnerFacts DEF OwnersAre, Spare
    <2>8. OwnerOf(r)' = s
      BY <2>3, <2>5, OwnerFactsNext DEF OwnersAre, Uses, Using
    <2>9. MovesOnly(s, {r})
      BY <1>1, <2>4, <2>5 DEF MovesOnly, OthersSame, Same, Uses
    <2>10. s # "pool"  BY DesktopAssumption
    <2>11. Custody!Claim(s, r)
      BY <1>1, <2>3, <2>7, <2>8, <2>9, <2>10, CustodyPass DEF Custody!Claim
    <2>12. QED  BY <2>3, <2>11 DEF Custody!Next
  <1>3. CASE OpenAcquire(s)
    <2>1. PICK r \in Resource :
             /\ Fresh(r)
             /\ phys'  = [phys EXCEPT ![r] = "open"]
             /\ lease' = [lease EXCEPT ![s] = r]
             /\ \/ /\ Opened(r, request[s].key, request[s].purpose, PolicyOf(request[s]))
                   /\ Goto(s, "observe")
                \/ UNCHANGED rows /\ Goto(s, "refusedClose")
      BY <1>3 DEF OpenAcquire
    <2>2. /\ pc'[s] \in {"observe", "refusedClose"} /\ lease'[s] = r /\ phys'[r] = "open"
          /\ \A o \in Resource \ {r} : phys'[o] = phys[o]
          /\ \A u \in Task \ {s} : pc'[u] = pc[u] /\ lease'[u] = lease[u]
      BY <1>1, <2>1 DEF Goto, TypeOK
    <2>3. phys[r] = "absent" /\ \A u \in Session : ~Uses(u, r)
      BY <2>1 DEF Fresh, Uses, Task
    <2>4. OwnerOf(r) = "free"  BY <2>3, OwnerFacts DEF OwnersAre, Spare
    <2>5. ~Idle(r)' /\ OthersSame(r)
      <3>1. request[s].key \in Key /\ request[s].purpose \in Purpose
            /\ PolicyOf(request[s]) \in Policy
        BY <1>1 DEF TypeOK, PolicyOf, Policy
      <3>2. CASE Opened(r, request[s].key, request[s].purpose, PolicyOf(request[s]))
        BY <1>1, <3>1, <3>2, OpenedRow
      <3>3. CASE UNCHANGED rows
        BY <2>1, <3>3, NoRowMoves DEF OthersSame, Fresh, Idle, Registered
      <3>4. QED  BY <2>1, <3>2, <3>3
    <2>6. MovesOnly(s, {r})
      BY <1>1, <2>2, <2>5 DEF MovesOnly, OthersSame, Same, Uses
    <2>7. CASE pc'[s] = "observe"
      <3>1. OwnerOf(r)' = s
        BY <2>2, <2>7, OwnerFactsNext DEF OwnersAre, Uses, Using
      <3>2. s # "free"  BY DesktopAssumption
      <3>3. Custody!Open(s, r)
        BY <1>1, <2>4, <2>6, <3>1, <3>2, CustodyPass DEF Custody!Open
      <3>4. QED  BY <3>3 DEF Custody!Next
    <2>8. CASE pc'[s] = "refusedClose"
      <3>1. \A u \in Session : ~Uses(u, r)'
        BY <2>2, <2>3, <2>8 DEF Uses, Using, Task
      <3>2. OwnerOf(r)' = "host"
        BY <2>2, <2>5, <3>1, OwnerFactsNext DEF OwnersAre, Spare
      <3>3. Custody!Refuse(r)
        BY <1>1, <2>4, <2>6, <3>2, CustodyPass DEF Custody!Refuse
      <3>4. QED  BY <3>3 DEF Custody!Next
    <2>9. QED  BY <2>2, <2>7, <2>8
  <1>4. QED  BY <1>2, <1>3

\* Idle connections go from the pool to the host, all those of one list at once.
LEMMA RetireStep ==
    ASSUME Inv, Inv', (\E s \in Session : OpenPlan(s)) \/ Sweep
    PROVE  [Custody!Next]_owner
  <1>0. TypeOK /\ LedgerTypeOK /\ Reclaimer \in Task /\ (\A s \in Session : s \in Task)
    BY DEF Inv, TypeOK, Task
  <1>1. ASSUME NEW t \in Task, NEW k, IdleToRetire(k), UNCHANGED <<phys, lease>>,
               pc[t] \in {"plan", "idle"}, pc'[t] = "retire",
               \A u \in Task \ {t} : pc'[u] = pc[u]
        PROVE  [Custody!Next]_owner
    <2> DEFINE R == RetireBatch(k)
    <2>1. R \in SUBSET Resource  BY DEF RetireBatch
    <2>2. ASSUME NEW r \in R
          PROVE  OwnerOf(r) = "pool" /\ OwnerOf(r)' = "host"
      <3>1. /\ r \in Resource /\ phys[r] = "open" /\ Idle(r) /\ ~Idle(r)'
            /\ \A u \in Task : ~Claims(u, r)
        BY <1>0, <1>1, <2>1, IdleToRetireRows DEF Inv, ResourceMatches
      <3>2. \A u \in Session : ~Uses(u, r)
        BY <3>1 DEF Claims, Holds, Uses, Using, Task
      <3>3. \A u \in Session : ~Uses(u, r)'  BY <1>1, <3>2 DEF Uses, Using, Task
      <3>4. OwnerOf(r) = "pool"  BY <3>1, <3>2, OwnerFacts DEF OwnersAre, Spare
      <3>5. OwnerOf(r)' = "host"
        BY <1>1, <3>1, <3>3, OwnerFactsNext DEF OwnersAre, Spare
      <3>6. QED  BY <3>4, <3>5
    <2>3. MovesOnly(t, R)
      <3>1. \A o \in Resource \ R : Same(o)  BY <1>0, <1>1, IdleToRetireRows
      <3>2. QED  BY <1>1, <3>1 DEF MovesOnly, Same, Uses, Using
    <2>4. \A o \in Resource \ R : OwnerOf(o)' = OwnerOf(o)  BY <2>3, OwnersStay
    <2>5. Custody!Retire(R)  BY <2>1, <2>2, <2>4 DEF Custody!Retire, owner
    <2>6. QED  BY <2>1, <2>5 DEF Custody!Next
  <1>2. ASSUME NEW s \in Session, OpenPlan(s) PROVE [Custody!Next]_owner
    <2>1. /\ pc[s] = "plan" /\ pc'[s] = "retire" /\ UNCHANGED <<phys, lease>>
          /\ IdleToRetire(request[s].key)
          /\ \A u \in Task \ {s} : pc'[u] = pc[u]
      BY <1>0, <1>2 DEF OpenPlan, Goto, hostVars, TypeOK
    <2>2. QED  BY <1>0, <1>1, <2>1
  <1>3. ASSUME Sweep PROVE [Custody!Next]_owner
    <2>1. /\ pc[Reclaimer] = "idle" /\ pc'[Reclaimer] = "retire" /\ UNCHANGED <<phys, lease>>
          /\ IdleToRetire(NoKey)
          /\ \A u \in Task \ {Reclaimer} : pc'[u] = pc[u]
      BY <1>0, <1>3 DEF Sweep, Goto, hostVars, TypeOK
    <2>2. QED  BY <1>0, <1>1, <2>1
  <1>4. QED  BY <1>2, <1>3

LEMMA CustodyStep == Inv /\ Inv' /\ [Next]_vars => [Custody!Next]_owner
  <1> SUFFICES ASSUME Inv, Inv', [Next]_vars PROVE [Custody!Next]_owner
    OBVIOUS
  <1>1. ASSUME NEW t \in Task, Retire(t) PROVE [Custody!Next]_owner
    BY <1>1, QuietStep, SettleStep DEF Retire
  <1>2. ASSUME NEW s \in Session, NEW k \in Key, NEW p \in Purpose, OpenBegin(s, k, p)
        PROVE  [Custody!Next]_owner
    BY <1>2, QuietStep
  <1>3. ASSUME NEW s \in Session, Open(s) PROVE [Custody!Next]_owner
    BY <1>3, QuietStep, RetireStep, ObtainStep, SettleStep, ReleaseStep DEF Open
  <1>4. ASSUME NEW s \in Session, Execute(s) \/ CloseBegin(s) PROVE [Custody!Next]_owner
    BY <1>4, QuietStep
  <1>5. ASSUME NEW s \in Session, Close(s) PROVE [Custody!Next]_owner
    BY <1>5, QuietStep, ReleaseStep, SettleStep DEF Close
  <1>6. ASSUME Reclaim PROVE [Custody!Next]_owner
    BY <1>6, QuietStep, RetireStep, SettleStep DEF Reclaim
  <1>7. ASSUME NEW r \in Resource, Elapse(r) PROVE [Custody!Next]_owner
    BY <1>7, QuietStep
  <1>8. CASE UNCHANGED vars
    <2>1. owner' = owner
      BY <1>8 DEF vars, owner, OwnerOf, Uses, Idle, Registered
    <2>2. QED  BY <2>1
  <1>9. QED  BY <1>1, <1>2, <1>3, <1>4, <1>5, <1>6, <1>7, <1>8 DEF Next

\* The host hands each connection on only the way LeaseCustody allows.
THEOREM HostKeepsCustody == Spec => ImplementsCustody
  <1>1. Init => Custody!Init
    <2> SUFFICES ASSUME Init, NEW r \in Resource PROVE OwnerOf(r) = "free"
      BY DEF Custody!Init
    <2>1. \A s \in Session : ~Uses(s, r)
      BY DesktopAssumption DEF Init, Uses, Task
    <2>2. phys[r] = "absent"  BY DEF Init
    <2>3. QED  BY <2>1, <2>2 DEF OwnerOf
  <1>2. QED
    BY <1>1, InvHolds, CustodyStep, PTL DEF Spec, ImplementsCustody, Custody!Spec, owner
================================================================================
