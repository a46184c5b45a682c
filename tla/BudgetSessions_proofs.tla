------------------------- MODULE BudgetSessions_proofs -------------------------
(* What the session half of the ledger guarantees for any number of users,      *)
(* organizations, services and sessions, whatever the limits are.               *)
EXTENDS BudgetSessions, FiniteSetTheorems, TLAPS

USE DEF Open, Less

LEMMA RecordOf == TypeOK => \A t \in Open : sessions[t] \in Session
  BY NoSessionIsNone DEF TypeOK

LEMMA TypeInit == Init => TypeOK
  BY DEF Init, TypeOK

\* Each operation of sessions.rs keeps the types; none makes a counter negative.
LEMMA TypeStep == TypeOK /\ [AnyNext]_vars => TypeOK'
  <1> SUFFICES ASSUME TypeOK, [AnyNext]_vars PROVE TypeOK'
    OBVIOUS
  <1>0. \A t \in Open : sessions[t] \in Session
    BY RecordOf
  <1> USE SessionsAssumption DEF TypeOK
  <1>1. ASSUME NEW t \in Ticket, NEW o \in Organization, NEW u \in User, NEW s \in Service,
               OpenSession(t, o, u, s) \/ ReserveEditor(t, o, u, s)
        PROVE  TypeOK'
    <2>1. \A e \in BOOLEAN : [org |-> o, user |-> u, service |-> s,
                              occupancy |-> "New", editor |-> e] \in Session
      BY DEF Session, Occupancy
    <2>2. PICK e \in BOOLEAN :
            sessions' = [sessions EXCEPT ![t] = [org |-> o, user |-> u, service |-> s,
                                                 occupancy |-> "New", editor |-> e]]
      BY <1>1 DEF OpenSession, ReserveEditor
    <2>3. sessions' \in [Ticket -> Session \cup {NoSession}]  BY <2>1, <2>2
    <2>4. connected' \in [Service -> [User -> Nat]]
      <3>1. \/ connected' = connected
            \/ connected' = [connected EXCEPT ![s][u] = @ + 1]
        BY <1>1, Zenon DEF OpenSession, ReserveEditor
      <3>2. CASE connected' = connected  BY <3>2
      <3>3. CASE connected' = [connected EXCEPT ![s][u] = @ + 1]  BY <3>3
      <3>4. QED  BY <3>1, <3>2, <3>3, Zenon
    <2>5. /\ userLogical' = [userLogical EXCEPT ![u] = @ + 1]
          /\ orgLogical' = [orgLogical EXCEPT ![o] = @ + 1]
          /\ physical' = physical /\ inHand' = inHand
      BY <1>1 DEF OpenSession, ReserveEditor
    <2>6. QED  BY <2>3, <2>4, <2>5
  <1>2. ASSUME NEW t \in Ticket, ConnectEditor(t) PROVE TypeOK'
    <2>1. [sessions[t] EXCEPT !.editor = TRUE] \in Session
      BY <1>0, <1>2 DEF ConnectEditor, Session
    <2>2. QED  BY <1>0, <1>2, <2>1 DEF ConnectEditor, Session
  <1>3. ASSUME NEW t \in Ticket, AttachPhysical(t) PROVE TypeOK'
    <2>1. [sessions[t] EXCEPT !.occupancy = "InUse"] \in Session
      BY <1>0, <1>3, ZenonT(60) DEF AttachPhysical, Session, Occupancy
    <2>2. QED  BY <1>0, <1>3, <2>1 DEF AttachPhysical, Session
  <1>4. ASSUME NEW t \in Ticket, NEW to \in {"InUse", "IdlePooled"}, Transition(t, to)
        PROVE  TypeOK'
    <2>1. [sessions[t] EXCEPT !.occupancy = to] \in Session
      BY <1>0, <1>4, ZenonT(60) DEF Transition, Session, Occupancy
    <2>2. QED  BY <1>4, <2>1 DEF Transition, counts
  <1>5. ASSUME NEW t \in Ticket, CloseSession(t) PROVE TypeOK'
    <2>1. sessions[t] \in Session  BY <1>0, <1>5 DEF CloseSession
    <2>2. QED  BY <1>5, <2>1 DEF CloseSession, Session
  <1>6. ASSUME NEW s \in Service, TakePermit(s) \/ ReturnPermit(s) PROVE TypeOK'
    <2>1. UNCHANGED <<sessions, userLogical, orgLogical, physical, connected>>
      BY <1>6, Zenon DEF TakePermit, ReturnPermit, counts
    <2>2. \/ inHand' = [inHand EXCEPT ![s] = @ + 1]
          \/ inHand[s] > 0 /\ inHand' = [inHand EXCEPT ![s] = @ - 1]
      BY <1>6, Zenon DEF TakePermit, ReturnPermit
    <2>3. inHand' \in [Service -> Nat]
      <3>1. inHand[s] \in Nat  OBVIOUS
      <3>2. inHand[s] + 1 \in Nat /\ (inHand[s] > 0 => inHand[s] - 1 \in Nat)  BY <3>1
      <3>3. PICK n \in Nat : inHand' = [inHand EXCEPT ![s] = n]  BY <2>2, <3>2, Zenon
      <3>4. QED  BY <3>3
    <2>4. QED  BY <2>1, <2>3
  <1>7. CASE UNCHANGED vars
    BY <1>7 DEF vars
  <1>8. QED
    BY <1>1, <1>2, <1>3, <1>4, <1>5, <1>6, <1>7 DEF AnyNext, PermitNext, Opens, Permits

\* The state of every session and counter is of its type, for every use of the ledger.
THEOREM SessionsTypeCorrect == AnySpec => []TypeOK
  BY TypeInit, TypeStep, PTL DEF AnySpec

--------------------------------------------------------------------------------
(* Sets of sessions, and how a step moves one session in or out of them.        *)

OfUser(u) == {t \in Open : sessions[t].user = u}
OfOrg(o) == {t \in Open : sessions[t].org = o}
Attached(s) == {t \in Open : sessions[t].service = s /\ sessions[t].occupancy # "New"}

LEMMA FiniteSessions ==
    ASSUME NEW S \in SUBSET Ticket
    PROVE  /\ IsFiniteSet(S) /\ Cardinality(S) \in Nat
           /\ \A t \in Ticket : /\ t \notin S => Cardinality(S \cup {t}) = Cardinality(S) + 1
                                /\ t \in S => Cardinality(S \ {t}) = Cardinality(S) - 1
                                /\ t \in S => Cardinality(S) > 0
  <1>1. IsFiniteSet(S)  BY FS_Subset, SessionsAssumption
  <1>2. Cardinality(S) \in Nat  BY <1>1, FS_CardinalityType
  <1>3. ASSUME NEW t \in Ticket
        PROVE  /\ t \notin S => Cardinality(S \cup {t}) = Cardinality(S) + 1
               /\ t \in S => Cardinality(S \ {t}) = Cardinality(S) - 1
    BY <1>1, FS_AddElement, FS_RemoveElement
  <1>4. ASSUME NEW t \in S PROVE Cardinality(S) > 0
    <2>1. Cardinality(S) # 0  BY <1>1, FS_EmptySet
    <2>2. QED  BY <1>2, <2>1
  <1>5. QED  BY <1>1, <1>2, <1>3, <1>4

LEMMA CountersInit == Init => CountersMatchSessions
  <1> SUFFICES ASSUME Init PROVE CountersMatchSessions
    OBVIOUS
  <1>1. Open = {}  BY DEF Init
  <1>2. QED  BY <1>1, FS_EmptySet DEF Init, CountersMatchSessions

\* A session is counted for its user, its organization and, while it is attached, its
\* service: the inductive step goes by what each operation does to those three sets.
LEMMA CountersStep ==
    TypeOK /\ CountersMatchSessions /\ [AnyNext]_vars => CountersMatchSessions'
  <1> SUFFICES ASSUME TypeOK, CountersMatchSessions, [AnyNext]_vars
               PROVE  CountersMatchSessions'
    OBVIOUS
  <1> DEFINE Same ==
        /\ \A u \in User : OfUser(u)' = OfUser(u)
        /\ \A o \in Organization : OfOrg(o)' = OfOrg(o)
  <1>0. \A t \in Open : sessions[t] \in Session
    BY RecordOf
  <1>a. /\ \A u \in User : userLogical[u] = Cardinality(OfUser(u)) /\ OfUser(u) \in SUBSET Ticket
        /\ \A o \in Organization : orgLogical[o] = Cardinality(OfOrg(o)) /\ OfOrg(o) \in SUBSET Ticket
        /\ \A s \in Service : physical[s] = Cardinality(Attached(s)) /\ Attached(s) \in SUBSET Ticket
    BY DEF CountersMatchSessions, OfUser, OfOrg, Attached
  <1>b. SUFFICES
          /\ \A u \in User : userLogical'[u] = Cardinality(OfUser(u)')
          /\ \A o \in Organization : orgLogical'[o] = Cardinality(OfOrg(o)')
          /\ \A s \in Service : physical'[s] = Cardinality(Attached(s)')
    BY DEF CountersMatchSessions, OfUser, OfOrg, Attached
  <1> DEFINE Goal ==
          /\ \A u \in User : userLogical'[u] = Cardinality(OfUser(u)')
          /\ \A o \in Organization : orgLogical'[o] = Cardinality(OfOrg(o)')
          /\ \A s \in Service : physical'[s] = Cardinality(Attached(s)')
  <1>1. ASSUME NEW t \in Ticket, NEW o \in Organization, NEW u \in User, NEW s \in Service,
               OpenSession(t, o, u, s) \/ ReserveEditor(t, o, u, s)
        PROVE  Goal
    <2> PICK e \in BOOLEAN :
          sessions' = [sessions EXCEPT ![t] = [org |-> o, user |-> u, service |-> s,
                                               occupancy |-> "New", editor |-> e]]
      BY <1>1 DEF OpenSession, ReserveEditor
    <2>1. sessions[t] = NoSession /\ sessions'[t] # NoSession
      BY <1>1, NoSessionIsNone DEF OpenSession, ReserveEditor, Session, Occupancy, TypeOK
    <2>2. \A v \in User : OfUser(v)' = IF v = u THEN OfUser(v) \cup {t} ELSE OfUser(v)
      BY <2>1 DEF OfUser, TypeOK
    <2>3. \A q \in Organization : OfOrg(q)' = IF q = o THEN OfOrg(q) \cup {t} ELSE OfOrg(q)
      BY <2>1 DEF OfOrg, TypeOK
    <2>4. \A r \in Service : Attached(r)' = Attached(r)
      BY <2>1 DEF Attached, TypeOK
    <2>5. t \notin OfUser(u) /\ t \notin OfOrg(o)  BY <2>1 DEF OfUser, OfOrg
    <2>6. /\ userLogical' = [userLogical EXCEPT ![u] = @ + 1]
          /\ orgLogical' = [orgLogical EXCEPT ![o] = @ + 1]
          /\ physical' = physical
      BY <1>1 DEF OpenSession, ReserveEditor
    <2>7. /\ Cardinality(OfUser(u) \cup {t}) = Cardinality(OfUser(u)) + 1
          /\ Cardinality(OfOrg(o) \cup {t}) = Cardinality(OfOrg(o)) + 1
      BY <1>a, <2>5, FiniteSessions
    <2>8. QED  BY <1>a, <2>2, <2>3, <2>4, <2>6, <2>7 DEF TypeOK
  <1>2. ASSUME NEW t \in Ticket, ConnectEditor(t) PROVE Goal
    <2>1. [sessions[t] EXCEPT !.editor = TRUE] \in Session
      BY <1>0, <1>2 DEF ConnectEditor, Session
    <2>2. Same /\ \A s \in Service : Attached(s)' = Attached(s)
      BY <1>0, <1>2, <2>1, NoSessionIsNone DEF ConnectEditor, Session, OfUser, OfOrg, Attached, TypeOK
    <2>3. QED  BY <1>a, <1>2, <2>2 DEF ConnectEditor
  <1>3. ASSUME NEW t \in Ticket, AttachPhysical(t) PROVE Goal
    <2> DEFINE r == sessions[t].service
    <2>1. [sessions[t] EXCEPT !.occupancy = "InUse"] \in Session /\ r \in Service
      BY <1>0, <1>3 DEF AttachPhysical, Session, Occupancy
    <2>2. Same
      BY <1>0, <1>3, <2>1, NoSessionIsNone, ZenonT(60) DEF AttachPhysical, Session, OfUser, OfOrg, TypeOK
    <2>3. \A s \in Service : Attached(s)' = IF s = r THEN Attached(s) \cup {t} ELSE Attached(s)
      <3> DEFINE y == [sessions[t] EXCEPT !.occupancy = "InUse"]
      <3>1. y \in Session /\ y.service = r /\ y.occupancy = "InUse"
        BY <1>0, <1>3, <2>1 DEF AttachPhysical, Session
      <3>2. sessions' = [sessions EXCEPT ![t] = y]  BY <1>3 DEF AttachPhysical
      <3> HIDE DEF y, r
      <3>3. y # NoSession  BY <3>1, NoSessionIsNone
      <3>4. sessions'[t] = y /\ \A x \in Ticket : x # t => sessions'[x] = sessions[x]
        BY <3>2 DEF TypeOK
      <3>5. t \in Open /\ sessions[t].occupancy = "New"  BY <1>3 DEF AttachPhysical
      <3>6. \A x \in Ticket : x \in Open' <=> x \in Open  BY <3>3, <3>4, <3>5 DEF Open
      <3>7. ASSUME NEW s \in Service
            PROVE  Attached(s)' = IF s = r THEN Attached(s) \cup {t} ELSE Attached(s)
        <4>1. \A x \in Ticket : x # t => (x \in Attached(s)' <=> x \in Attached(s))
          BY <3>4, <3>6 DEF Attached
        <4>2. t \in Attached(s)' <=> s = r  BY <3>1, <3>4, <3>5, <3>6 DEF Attached
        <4>3. t \notin Attached(s)  BY <3>5 DEF Attached
        <4>4. Attached(s) \subseteq Ticket /\ Attached(s)' \subseteq Ticket  BY DEF Attached, Open
        <4>5. QED  BY <4>1, <4>2, <4>3, <4>4
      <3>8. QED  BY <3>7
    <2>4. t \notin Attached(r)  BY <1>3 DEF AttachPhysical, Attached
    <2>5. Cardinality(Attached(r) \cup {t}) = Cardinality(Attached(r)) + 1
      BY <1>a, <2>1, <2>4, FiniteSessions
    <2>6. QED  BY <1>a, <1>3, <2>1, <2>2, <2>3, <2>5, ZenonT(60) DEF AttachPhysical, TypeOK
  <1>4. ASSUME NEW t \in Ticket, NEW to \in {"InUse", "IdlePooled"}, Transition(t, to)
        PROVE  Goal
    <2>1. [sessions[t] EXCEPT !.occupancy = to] \in Session
      BY <1>0, <1>4 DEF Transition, Session, Occupancy
    <2>2. Same /\ \A s \in Service : Attached(s)' = Attached(s)
      BY <1>0, <1>4, <2>1, NoSessionIsNone, SMTT(60) DEF Transition, Session, OfUser, OfOrg, Attached, TypeOK
    <2>3. QED  BY <1>a, <1>4, <2>2 DEF Transition, counts
  <1>5. ASSUME NEW t \in Ticket, CloseSession(t) PROVE Goal
    <2> DEFINE r == sessions[t]
               attached == r.occupancy # "New"
    <2>1. r \in Session /\ r.user \in User /\ r.org \in Organization /\ r.service \in Service
      BY <1>0, <1>5 DEF CloseSession, Session
    <2>2. sessions' = [sessions EXCEPT ![t] = NoSession]  BY <1>5 DEF CloseSession
    <2>3. t \in OfUser(r.user) /\ t \in OfOrg(r.org) /\ (attached => t \in Attached(r.service))
      BY <1>5 DEF CloseSession, OfUser, OfOrg, Attached
    <2>4. \A v \in User : OfUser(v)' = IF v = r.user THEN OfUser(v) \ {t} ELSE OfUser(v)
      BY <2>2 DEF OfUser, TypeOK
    <2>5. \A q \in Organization : OfOrg(q)' = IF q = r.org THEN OfOrg(q) \ {t} ELSE OfOrg(q)
      BY <2>2 DEF OfOrg, TypeOK
    <2>6. \A s \in Service : Attached(s)' = IF s = r.service /\ attached
                                            THEN Attached(s) \ {t} ELSE Attached(s)
      BY <2>2 DEF Attached, TypeOK
    <2>7. /\ Cardinality(OfUser(r.user) \ {t}) = userLogical[r.user] - 1 /\ userLogical[r.user] > 0
          /\ Cardinality(OfOrg(r.org) \ {t}) = orgLogical[r.org] - 1 /\ orgLogical[r.org] > 0
          /\ attached => /\ Cardinality(Attached(r.service) \ {t}) = physical[r.service] - 1
                         /\ physical[r.service] > 0
      <3>1. Cardinality(OfUser(r.user) \ {t}) = userLogical[r.user] - 1 /\ userLogical[r.user] > 0
        BY <1>a, <2>1, <2>3, FiniteSessions, ZenonT(60)
      <3>2. Cardinality(OfOrg(r.org) \ {t}) = orgLogical[r.org] - 1 /\ orgLogical[r.org] > 0
        BY <1>a, <2>1, <2>3, FiniteSessions, ZenonT(60)
      <3>3. ASSUME attached
            PROVE  /\ Cardinality(Attached(r.service) \ {t}) = physical[r.service] - 1
                   /\ physical[r.service] > 0
        BY <1>a, <2>1, <2>3, <3>3, FiniteSessions, ZenonT(60)
      <3>4. QED  BY <3>1, <3>2, <3>3
    <2>8. /\ userLogical' = [userLogical EXCEPT ![r.user] = Less(@)]
          /\ orgLogical' = [orgLogical EXCEPT ![r.org] = Less(@)]
          /\ physical' = [physical EXCEPT ![r.service] = IF attached THEN Less(@) ELSE @]
      BY <1>5 DEF CloseSession
    <2>9. \A v \in User : userLogical'[v] = Cardinality(OfUser(v)')
      BY <1>a, <2>1, <2>4, <2>7, <2>8 DEF TypeOK
    <2>10. \A q \in Organization : orgLogical'[q] = Cardinality(OfOrg(q)')
      BY <1>a, <2>1, <2>5, <2>7, <2>8 DEF TypeOK
    <2>11. \A s \in Service : physical'[s] = Cardinality(Attached(s)')
      BY <1>a, <2>1, <2>6, <2>7, <2>8 DEF TypeOK
    <2>12. QED  BY <2>9, <2>10, <2>11
  <1>6. ASSUME NEW s \in Service, TakePermit(s) \/ ReturnPermit(s) PROVE Goal
    <2>1. UNCHANGED <<sessions, userLogical, orgLogical, physical>>
      BY <1>6 DEF TakePermit, ReturnPermit, counts
    <2>2. QED  BY <1>a, <2>1 DEF OfUser, OfOrg, Attached
  <1>7. CASE UNCHANGED vars
    BY <1>7, <1>a DEF vars, OfUser, OfOrg, Attached
  <1>8. QED
    BY <1>1, <1>2, <1>3, <1>4, <1>5, <1>6, <1>7 DEF AnyNext, PermitNext, Opens, Permits

\* No session is left uncounted and no count is left behind, in any order of calls.
THEOREM CountersAreSessions == AnySpec => []CountersMatchSessions
  BY TypeInit, TypeStep, CountersInit, CountersStep, PTL DEF AnySpec

--------------------------------------------------------------------------------
(* Limits.                                                                      *)

LEMMA QuotaInit == Init => SessionsWithinQuota
  BY SessionsAssumption DEF Init, SessionsWithinQuota

\* Every operation looks at each limit it could pass, and looks at the counter it adds
\* to: users and organizations when a session opens, connections and editors together
\* when one is attached.
LEMMA QuotaStep ==
    TypeOK /\ SessionsWithinQuota /\ [AnyNext]_vars => SessionsWithinQuota'
  <1> SUFFICES ASSUME TypeOK, SessionsWithinQuota, [AnyNext]_vars
               PROVE  SessionsWithinQuota'
    OBVIOUS
  <1>0. \A t \in Open : /\ sessions[t].user \in User /\ sessions[t].org \in Organization
                        /\ sessions[t].service \in Service
    BY RecordOf DEF Session
  <1> USE SessionsAssumption DEF TypeOK, SessionsWithinQuota
  <1>1. ASSUME NEW t \in Ticket, NEW o \in Organization, NEW u \in User, NEW s \in Service,
               OpenSession(t, o, u, s)
        PROVE  SessionsWithinQuota'
    BY <1>1 DEF OpenSession, MayOpen
  <1>2. ASSUME NEW t \in Ticket, NEW o \in Organization, NEW u \in User, NEW s \in Service,
               ReserveEditor(t, o, u, s)
        PROVE  SessionsWithinQuota'
    BY <1>2 DEF ReserveEditor, MayOpen, MayConnect
  <1>3. ASSUME NEW t \in Ticket, ConnectEditor(t) PROVE SessionsWithinQuota'
    BY <1>0, <1>3 DEF ConnectEditor, MayConnect
  <1>4. ASSUME NEW t \in Ticket, AttachPhysical(t) PROVE SessionsWithinQuota'
    BY <1>0, <1>4 DEF AttachPhysical, MayConnect, MayAttach
  <1>5. ASSUME NEW t \in Ticket, NEW to \in {"InUse", "IdlePooled"}, Transition(t, to)
        PROVE  SessionsWithinQuota'
    BY <1>5 DEF Transition, counts
  <1>6. ASSUME NEW t \in Ticket, CloseSession(t) PROVE SessionsWithinQuota'
    BY <1>0, <1>6 DEF CloseSession
  <1>7. ASSUME NEW s \in Service, TakePermit(s) \/ ReturnPermit(s)
        PROVE  SessionsWithinQuota'
    <2>1. UNCHANGED counts  BY <1>7 DEF TakePermit, ReturnPermit
    <2>2. \A r \in Service : physical[r] + inHand'[r] <= Connections
      BY <1>7 DEF TakePermit, ReturnPermit
    <2>3. QED  BY <2>1, <2>2 DEF counts
  <1>8. CASE UNCHANGED vars
    BY <1>8 DEF vars
  <1>9. QED
    BY <1>1, <1>2, <1>3, <1>4, <1>5, <1>6, <1>7, <1>8 DEF AnyNext, PermitNext, Opens, Permits

\* No user, organization or service is ever above its limit.
THEOREM QuotasHold == AnySpec => []SessionsWithinQuota
  BY TypeInit, TypeStep, QuotaInit, QuotaStep, PTL DEF AnySpec

--------------------------------------------------------------------------------
(* Editors.  A step leaves the editors of a user on a service alone, adds one   *)
(* session to them and one to their count, or takes one off both.               *)

Stays(s, u) == /\ EditorsOf(s, u)' = EditorsOf(s, u)
               /\ connected'[s][u] = connected[s][u]
Joins(s, u, t) == /\ EditorsOf(s, u)' = EditorsOf(s, u) \cup {t}
                  /\ connected'[s][u] = connected[s][u] + 1
Leaves(s, u, t) == /\ t \in EditorsOf(s, u)
                   /\ EditorsOf(s, u)' = EditorsOf(s, u) \ {t}
                   /\ connected'[s][u] = Less(connected[s][u])

LEMMA ProductMoves ==
    ASSUME TypeOK, [PermitNext]_vars, NEW r \in Service, NEW v \in User
    PROVE  \/ Stays(r, v)
           \/ \E t \in Ticket : t \notin EditorsOf(r, v) /\ Joins(r, v, t)
           \/ \E t \in Ticket : Leaves(r, v, t)
  <1> DEFINE Goal == \/ Stays(r, v)
                     \/ \E t \in Ticket : t \notin EditorsOf(r, v) /\ Joins(r, v, t)
                     \/ \E t \in Ticket : Leaves(r, v, t)
  <1>1. ASSUME NEW t \in Ticket, NEW o \in Organization, NEW u \in User, NEW s \in Service,
               OpenSession(t, o, u, s)
        PROVE  Goal
    <2>1. UNCHANGED connected  BY <1>1 DEF OpenSession
    <2>2. EditorsOf(r, v)' = EditorsOf(r, v)
      BY <1>1 DEF OpenSession, EditorsOf, TypeOK
    <2>3. QED  BY <2>1, <2>2 DEF Stays
  <1>2. ASSUME NEW t \in Ticket, NEW o \in Organization, NEW u \in User, NEW s \in Service,
               ReserveEditor(t, o, u, s)
        PROVE  Goal
    <2>1. t \notin EditorsOf(r, v)  BY <1>2 DEF ReserveEditor, EditorsOf
    <2>2. sessions'[t] = [org |-> o, user |-> u, service |-> s, occupancy |-> "New",
                          editor |-> TRUE]
          /\ sessions'[t] # NoSession
      <3>1. [org |-> o, user |-> u, service |-> s, occupancy |-> "New", editor |-> TRUE] \in Session
        BY DEF Session, Occupancy
      <3>2. QED  BY <1>2, <3>1, NoSessionIsNone DEF ReserveEditor, TypeOK
    <2>3. \A x \in Ticket \ {t} : sessions'[x] = sessions[x]
      BY <1>2 DEF ReserveEditor, TypeOK
    <2>4. CASE r = s /\ v = u
      <3>1. EditorsOf(r, v)' = EditorsOf(r, v) \cup {t}
        BY <2>2, <2>3, <2>4 DEF EditorsOf
      <3>2. connected'[r][v] = connected[r][v] + 1
        BY <1>2, <2>4 DEF ReserveEditor, TypeOK
      <3>3. QED  BY <2>1, <3>1, <3>2 DEF Joins
    <2>5. CASE ~(r = s /\ v = u)
      <3>1. EditorsOf(r, v)' = EditorsOf(r, v)
        BY <2>1, <2>2, <2>3, <2>5 DEF EditorsOf
      <3>2. connected'[r][v] = connected[r][v]
        BY <1>2, <2>5 DEF ReserveEditor, TypeOK
      <3>3. QED  BY <3>1, <3>2 DEF Stays
    <2>6. QED  BY <2>4, <2>5
  <1>3. ASSUME NEW t \in Ticket, CloseSession(t) PROVE Goal
    <2>1. sessions[t] \in Session  BY <1>3, RecordOf DEF CloseSession
    <2>2. sessions[t].service \in Service /\ sessions[t].user \in User
          /\ sessions[t].editor \in BOOLEAN
      BY <2>1 DEF Session
    <2>3. sessions'[t] = NoSession /\ \A x \in Ticket \ {t} : sessions'[x] = sessions[x]
      BY <1>3 DEF CloseSession, TypeOK
    <2>4. EditorsOf(r, v)' = EditorsOf(r, v) \ {t}
      BY <2>3 DEF EditorsOf
    <2>5. CASE t \in EditorsOf(r, v)
      <3>1. connected'[r][v] = Less(connected[r][v])
        BY <1>3, <2>2, <2>5 DEF CloseSession, EditorsOf, TypeOK
      <3>2. QED  BY <2>4, <2>5, <3>1 DEF Leaves
    <2>6. CASE t \notin EditorsOf(r, v)
      <3>1. ~(/\ sessions[t].service = r /\ sessions[t].user = v
              /\ sessions[t].occupancy # "New" \/ sessions[t].editor)
        BY <1>3, <2>6 DEF CloseSession, EditorsOf
      <3>2. connected'[r][v] = connected[r][v]
        BY <1>3, <2>2, <3>1 DEF CloseSession, TypeOK
      <3>3. QED  BY <2>4, <2>6, <3>2 DEF Stays
    <2>7. QED  BY <2>5, <2>6
  <1>4. ASSUME NEW s \in Service, TakePermit(s) \/ ReturnPermit(s) PROVE Goal
    <2>1. UNCHANGED <<sessions, connected>>  BY <1>4 DEF TakePermit, ReturnPermit, counts
    <2>2. QED  BY <2>1 DEF Stays, EditorsOf
  <1>5. CASE UNCHANGED vars
    BY <1>5 DEF vars, Stays, EditorsOf
  <1>6. QED
    BY <1>1, <1>2, <1>3, <1>4, <1>5 DEF PermitNext, Opens, Permits

LEMMA AnyMoves ==
    ASSUME TypeOK, [AnyNext]_vars, NEW r \in Service, NEW v \in User
    PROVE  \/ Stays(r, v)
           \/ \E t \in Ticket : Joins(r, v, t)
           \/ \E t \in Ticket : Leaves(r, v, t)
  <1> DEFINE Goal == \/ Stays(r, v)
                     \/ \E t \in Ticket : Joins(r, v, t)
                     \/ \E t \in Ticket : Leaves(r, v, t)
  <1>0. \A t \in Open : sessions[t] \in Session
    BY RecordOf
  <1>1. CASE [PermitNext]_vars
    BY <1>1, ProductMoves
  <1>2. ASSUME NEW t \in Ticket, ConnectEditor(t) \/ AttachPhysical(t) PROVE Goal
    <2>1. /\ sessions[t] \in Session
          /\ sessions[t].service \in Service /\ sessions[t].user \in User
      BY <1>0, <1>2 DEF ConnectEditor, AttachPhysical, Session
    <2>2. /\ sessions'[t] # NoSession
          /\ sessions'[t].service = sessions[t].service /\ sessions'[t].user = sessions[t].user
          /\ sessions'[t].editor \/ sessions'[t].occupancy # "New"
      <3>1. CASE ConnectEditor(t)
        <4>1. sessions'[t] = [sessions[t] EXCEPT !.editor = TRUE]
          BY <3>1 DEF ConnectEditor, TypeOK
        <4>2. QED  BY <2>1, <4>1, NoSessionIsNone DEF Session
      <3>2. CASE AttachPhysical(t)
        <4>1. sessions'[t] = [sessions[t] EXCEPT !.occupancy = "InUse"]
          BY <3>2 DEF AttachPhysical, TypeOK
        <4>2. QED  BY <2>1, <4>1, NoSessionIsNone DEF Session, Occupancy
      <3>3. QED  BY <1>2, <3>1, <3>2
    <2>3. sessions[t] # NoSession /\ \A x \in Ticket \ {t} : sessions'[x] = sessions[x]
      BY <1>2 DEF ConnectEditor, AttachPhysical, TypeOK
    <2>4. connected' = [connected EXCEPT ![sessions[t].service][sessions[t].user] = @ + 1]
      BY <1>2 DEF ConnectEditor, AttachPhysical
    <2>5. CASE sessions[t].service = r /\ sessions[t].user = v
      <3>1. EditorsOf(r, v)' = EditorsOf(r, v) \cup {t}
        BY <2>2, <2>3, <2>5 DEF EditorsOf
      <3>2. connected'[r][v] = connected[r][v] + 1  BY <2>4, <2>5 DEF TypeOK
      <3>3. QED  BY <3>1, <3>2 DEF Joins
    <2>6. CASE ~(sessions[t].service = r /\ sessions[t].user = v)
      <3>1. EditorsOf(r, v)' = EditorsOf(r, v)
        BY <2>2, <2>3, <2>6 DEF EditorsOf
      <3>2. connected'[r][v] = connected[r][v]  BY <2>1, <2>4, <2>6 DEF TypeOK
      <3>3. QED  BY <3>1, <3>2 DEF Stays
    <2>7. QED  BY <2>5, <2>6
  <1>3. ASSUME NEW t \in Ticket, NEW to \in {"InUse", "IdlePooled"}, Transition(t, to)
        PROVE  Goal
    <2>1. sessions[t] \in Session /\ sessions[t] # NoSession /\ sessions[t].occupancy # "New"
      BY <1>0, <1>3 DEF Transition
    <2>2. sessions'[t] = [sessions[t] EXCEPT !.occupancy = to]
      BY <1>3 DEF Transition, TypeOK
    <2>3. /\ sessions'[t] # NoSession /\ sessions'[t].occupancy # "New"
          /\ sessions'[t].service = sessions[t].service /\ sessions'[t].user = sessions[t].user
      BY <2>1, <2>2, NoSessionIsNone DEF Session, Occupancy
    <2>4. \A x \in Ticket \ {t} : sessions'[x] = sessions[x]
      BY <1>3 DEF Transition, TypeOK
    <2>5. EditorsOf(r, v)' = EditorsOf(r, v)
      BY <2>1, <2>3, <2>4 DEF EditorsOf
    <2>6. connected' = connected  BY <1>3 DEF Transition, counts
    <2>7. QED  BY <2>5, <2>6 DEF Stays
  <1>4. QED  BY <1>1, <1>2, <1>3 DEF AnyNext

LEMMA EditorsInit == Init => EditorsCounted /\ EditorsMatchSessions
  <1> SUFFICES ASSUME Init PROVE EditorsCounted /\ EditorsMatchSessions
    OBVIOUS
  <1>1. \A s \in Service, u \in User : EditorsOf(s, u) = {} /\ connected[s][u] = 0
    BY DEF Init, EditorsOf
  <1>2. Cardinality({}) = 0  BY FS_EmptySet
  <1>3. \A s \in Service, u \in User : Cardinality(EditorsOf(s, u)) = 0 /\ connected[s][u] = 0
    BY <1>1, <1>2
  <1>4. EditorsMatchSessions  BY <1>3 DEF EditorsMatchSessions
  <1>5. EditorsCounted  BY <1>3 DEF EditorsCounted
  <1>6. QED  BY <1>4, <1>5

LEMMA EditorsCountedStep ==
    TypeOK /\ EditorsCounted /\ [AnyNext]_vars => EditorsCounted'
  <1> SUFFICES ASSUME TypeOK, EditorsCounted, [AnyNext]_vars,
                      NEW s \in Service, NEW u \in User
               PROVE  Cardinality(EditorsOf(s, u)') <= connected'[s][u]
    BY DEF EditorsCounted
  <1>1. EditorsOf(s, u) \in SUBSET Ticket  BY DEF EditorsOf
  <1>2. /\ Cardinality(EditorsOf(s, u)) \in Nat /\ connected[s][u] \in Nat
        /\ Cardinality(EditorsOf(s, u)) <= connected[s][u]
    BY <1>1, FiniteSessions DEF EditorsCounted, TypeOK
  <1>3. CASE Stays(s, u)
    BY <1>2, <1>3 DEF Stays
  <1>4. ASSUME NEW t \in Ticket, Joins(s, u, t)
        PROVE  Cardinality(EditorsOf(s, u)') <= connected'[s][u]
    <2>1. \/ EditorsOf(s, u)' = EditorsOf(s, u)
          \/ Cardinality(EditorsOf(s, u)') = Cardinality(EditorsOf(s, u)) + 1
      BY <1>1, <1>4, FiniteSessions DEF Joins
    <2>2. connected'[s][u] = connected[s][u] + 1  BY <1>4 DEF Joins
    <2>3. CASE EditorsOf(s, u)' = EditorsOf(s, u)
      <3>1. Cardinality(EditorsOf(s, u)') = Cardinality(EditorsOf(s, u))  BY <2>3
      <3>2. QED  BY <1>2, <2>2, <3>1
    <2>4. CASE Cardinality(EditorsOf(s, u)') = Cardinality(EditorsOf(s, u)) + 1
      BY <1>2, <2>2, <2>4
    <2>5. QED  BY <2>1, <2>3, <2>4
  <1>5. ASSUME NEW t \in Ticket, Leaves(s, u, t)
        PROVE  Cardinality(EditorsOf(s, u)') <= connected'[s][u]
    <2>1. /\ Cardinality(EditorsOf(s, u)') = Cardinality(EditorsOf(s, u)) - 1
          /\ Cardinality(EditorsOf(s, u)) > 0
      BY <1>1, <1>5, FiniteSessions DEF Leaves
    <2>2. QED  BY <1>2, <1>5, <2>1 DEF Leaves
  <1>6. QED  BY <1>3, <1>4, <1>5, AnyMoves

LEMMA EditorsMatchStep ==
    TypeOK /\ EditorsMatchSessions /\ [PermitNext]_vars => EditorsMatchSessions'
  <1> SUFFICES ASSUME TypeOK, EditorsMatchSessions, [PermitNext]_vars,
                      NEW s \in Service, NEW u \in User
               PROVE  connected'[s][u] = Cardinality(EditorsOf(s, u)')
    BY DEF EditorsMatchSessions
  <1>1. EditorsOf(s, u) \in SUBSET Ticket  BY DEF EditorsOf
  <1>2. /\ connected[s][u] = Cardinality(EditorsOf(s, u)) /\ connected[s][u] \in Nat
    BY <1>1 DEF EditorsMatchSessions, TypeOK
  <1>3. CASE Stays(s, u)
    BY <1>2, <1>3 DEF Stays
  <1>4. ASSUME NEW t \in Ticket, t \notin EditorsOf(s, u), Joins(s, u, t)
        PROVE  connected'[s][u] = Cardinality(EditorsOf(s, u)')
    BY <1>1, <1>2, <1>4, FiniteSessions DEF Joins
  <1>5. ASSUME NEW t \in Ticket, Leaves(s, u, t)
        PROVE  connected'[s][u] = Cardinality(EditorsOf(s, u)')
    <2>1. /\ Cardinality(EditorsOf(s, u)') = Cardinality(EditorsOf(s, u)) - 1
          /\ Cardinality(EditorsOf(s, u)) > 0
      BY <1>1, <1>5, FiniteSessions DEF Leaves
    <2>2. QED  BY <1>2, <1>5, <2>1 DEF Leaves
  <1>6. QED  BY <1>3, <1>4, <1>5, ProductMoves

\* An editor never goes uncounted, whatever the ledger is asked to do.
THEOREM EditorsAreCounted == AnySpec => []EditorsCounted
  <1>1. Init => EditorsCounted  BY EditorsInit
  <1>2. QED  BY <1>1, TypeInit, TypeStep, EditorsCountedStep, PTL DEF AnySpec

\* As the product uses the ledger, through LogicalSessionPermit, the count of a user's
\* editors on a service is exact: what is reserved is given back, once.
THEOREM ProductCountsEditors == PermitSpec => []EditorsMatchSessions
  <1>1. Init => EditorsMatchSessions  BY EditorsInit
  <1>2. TypeOK /\ [PermitNext]_vars => TypeOK'
    BY TypeStep DEF AnyNext
  <1>3. QED  BY <1>1, <1>2, TypeInit, EditorsMatchStep, PTL DEF PermitSpec
================================================================================
