----------------------------- MODULE BudgetSessions -----------------------------
(* The session half of BudgetLedger: logical sessions of users and              *)
(* organizations, the connections attached to them, and the editors a user has  *)
(* connected.  Every operation runs under the ledger's mutex.  The product goes *)
(* through LogicalSessionPermit; the ledger offers more.                        *)
(*                                                                              *)
(* Sources: execution/runtime/budget/sessions.rs, execution/runtime/resource/   *)
(* production.rs.                                                               *)
EXTENDS Integers, FiniteSets

CONSTANTS
    Ticket, NoSession,      \* session tickets, reused here once closed
    User, Organization, Service,
    UserSessions,           \* per_user_logical_sessions
    OrgSessions,            \* per_org_logical_sessions
    UserEditors,            \* per_user_connected_editors
    Connections             \* service_physical_connections

ASSUME SessionsAssumption ==
    /\ {UserSessions, OrgSessions, UserEditors, Connections} \subseteq Nat \ {0}
    /\ IsFiniteSet(Ticket)

Occupancy == {"New", "InUse", "IdlePooled"}
Session == [org : Organization, user : User, service : Service,
            occupancy : Occupancy, editor : BOOLEAN]

ASSUME NoSessionIsNone == NoSession \notin Session

VARIABLES
    sessions,       \* the records, by ticket
    userLogical,    \* sessions of each user
    orgLogical,     \* sessions of each organization
    physical,       \* ServiceState::physical
    connected,      \* ServiceState::user_connected
    inHand          \* permits in hand, which count as connections too

counts == <<userLogical, orgLogical, physical, connected>>
vars == <<sessions, userLogical, orgLogical, physical, connected, inHand>>

TypeOK ==
    /\ sessions \in [Ticket -> Session \cup {NoSession}]
    /\ userLogical \in [User -> Nat]
    /\ orgLogical \in [Organization -> Nat]
    /\ physical \in [Service -> Nat]
    /\ connected \in [Service -> [User -> Nat]]
    /\ inHand \in [Service -> Nat]

Init ==
    /\ sessions = [t \in Ticket |-> NoSession]
    /\ userLogical = [u \in User |-> 0]
    /\ orgLogical = [o \in Organization |-> 0]
    /\ physical = [s \in Service |-> 0]
    /\ connected = [s \in Service |-> [u \in User |-> 0]]
    /\ inHand = [s \in Service |-> 0]

Open == {t \in Ticket : sessions[t] # NoSession}
Less(n) == IF n > 0 THEN n - 1 ELSE 0

--------------------------------------------------------------------------------
\* Fault: the organization's limit is not looked at.
MayOpen_UserOnly(o, u) == userLogical[u] < UserSessions

\* Both limits, the user's first.
MayOpen(o, u) == userLogical[u] < UserSessions /\ orgLogical[o] < OrgSessions

MayConnect(s, u) == connected[s][u] < UserEditors

\* open_session: a session without a connection still counts.
OpenSession(t, o, u, s) ==
    /\ sessions[t] = NoSession
    /\ MayOpen(o, u)
    /\ sessions' = [sessions EXCEPT ![t] = [org |-> o, user |-> u, service |-> s,
                                            occupancy |-> "New", editor |-> FALSE]]
    /\ userLogical' = [userLogical EXCEPT ![u] = @ + 1]
    /\ orgLogical' = [orgLogical EXCEPT ![o] = @ + 1]
    /\ UNCHANGED <<physical, connected, inHand>>

\* connect_editor; a second call changes nothing.
ConnectEditor(t) ==
    /\ t \in Open /\ ~sessions[t].editor
    /\ MayConnect(sessions[t].service, sessions[t].user)
    /\ connected' = [connected EXCEPT ![sessions[t].service][sessions[t].user] = @ + 1]
    /\ sessions' = [sessions EXCEPT ![t].editor = TRUE]
    /\ UNCHANGED <<userLogical, orgLogical, physical, inHand>>

\* Fault: permits in hand are not counted as connections.
MayAttach_OwnOnly(s) == physical[s] < Connections

MayAttach(s) == physical[s] + inHand[s] < Connections

\* attach_physical; of a session that has a connection it changes nothing.
AttachPhysical(t) ==
    /\ t \in Open /\ sessions[t].occupancy = "New"
    /\ MayAttach(sessions[t].service)
    /\ MayConnect(sessions[t].service, sessions[t].user)
    /\ physical' = [physical EXCEPT ![sessions[t].service] = @ + 1]
    /\ connected' = [connected EXCEPT ![sessions[t].service][sessions[t].user] = @ + 1]
    /\ sessions' = [sessions EXCEPT ![t].occupancy = "InUse"]
    /\ UNCHANGED <<userLogical, orgLogical, inHand>>

\* Fault: a connection that goes back to the pool is no longer counted.
Transition_Frees(t, to) ==
    /\ t \in Open /\ sessions[t].occupancy # "New"
    /\ sessions' = [sessions EXCEPT ![t].occupancy = to]
    /\ physical' = [physical EXCEPT ![sessions[t].service] =
                        IF to = "IdlePooled" THEN Less(@) ELSE @]
    /\ UNCHANGED <<userLogical, orgLogical, connected, inHand>>

\* transition: no counter moves.
Transition(t, to) ==
    /\ t \in Open /\ sessions[t].occupancy # "New"
    /\ sessions' = [sessions EXCEPT ![t].occupancy = to]
    /\ UNCHANGED <<counts, inHand>>

\* close_session: an attached session that is an editor too gives one editor back.
CloseSession(t) ==
    LET r == sessions[t]
        attached == r.occupancy # "New"
    IN /\ t \in Open
       /\ sessions' = [sessions EXCEPT ![t] = NoSession]
       /\ physical' = [physical EXCEPT ![r.service] = IF attached THEN Less(@) ELSE @]
       /\ connected' = [connected EXCEPT ![r.service][r.user] =
                            IF attached \/ r.editor THEN Less(@) ELSE @]
       /\ userLogical' = [userLogical EXCEPT ![r.user] = Less(@)]
       /\ orgLogical' = [orgLogical EXCEPT ![r.org] = Less(@)]
       /\ UNCHANGED inHand

\* A permit is granted or released (BudgetLedger).
TakePermit(s) ==
    /\ physical[s] + inHand[s] < Connections
    /\ inHand' = [inHand EXCEPT ![s] = @ + 1]
    /\ UNCHANGED <<sessions, counts>>
ReturnPermit(s) ==
    /\ inHand[s] > 0
    /\ inHand' = [inHand EXCEPT ![s] = @ - 1]
    /\ UNCHANGED <<sessions, counts>>

--------------------------------------------------------------------------------
\* LogicalSessionPermit::reserve for an editor: the session and the editor, or,
\* when the editor is refused, neither.
ReserveEditor(t, o, u, s) ==
    /\ sessions[t] = NoSession
    /\ MayOpen(o, u) /\ MayConnect(s, u)
    /\ sessions' = [sessions EXCEPT ![t] = [org |-> o, user |-> u, service |-> s,
                                            occupancy |-> "New", editor |-> TRUE]]
    /\ userLogical' = [userLogical EXCEPT ![u] = @ + 1]
    /\ orgLogical' = [orgLogical EXCEPT ![o] = @ + 1]
    /\ connected' = [connected EXCEPT ![s][u] = @ + 1]
    /\ UNCHANGED <<physical, inHand>>

Permits == \E s \in Service : TakePermit(s) \/ ReturnPermit(s)
Opens(Op(_, _, _, _)) ==
    \E t \in Ticket, o \in Organization, u \in User, s \in Service : Op(t, o, u, s)

\* What the product does: a permit is reserved, for an editor or not, and dropped.
PermitNext ==
    \/ Opens(OpenSession) \/ Opens(ReserveEditor)
    \/ \E t \in Ticket : CloseSession(t)
    \/ Permits

\* Everything the ledger allows: connections attached to sessions as well.
AnyNext ==
    \/ PermitNext
    \/ \E t \in Ticket :
          \/ ConnectEditor(t) \/ AttachPhysical(t)
          \/ \E to \in {"InUse", "IdlePooled"} : Transition(t, to)

PermitSpec == Init /\ [][PermitNext]_vars
AnySpec == Init /\ [][AnyNext]_vars

--------------------------------------------------------------------------------
\* The counters of users, organizations and services are the sessions there are:
\* what is opened, refused, parked or closed leaves neither a session uncounted nor
\* a count nobody can give back.
CountersMatchSessions ==
    /\ \A u \in User : userLogical[u] = Cardinality({t \in Open : sessions[t].user = u})
    /\ \A o \in Organization : orgLogical[o] = Cardinality({t \in Open : sessions[t].org = o})
    /\ \A s \in Service :
          physical[s] = Cardinality({t \in Open : sessions[t].service = s
                                                  /\ sessions[t].occupancy # "New"})

\* The sessions whose user takes up an editor of service s.
EditorsOf(s, u) ==
    {t \in Open : /\ sessions[t].service = s /\ sessions[t].user = u
                  /\ sessions[t].editor \/ sessions[t].occupancy # "New"}

\* Whatever the order of calls, an editor never goes uncounted, so the limit on them
\* is never passed in fact.
EditorsCounted ==
    \A s \in Service, u \in User : Cardinality(EditorsOf(s, u)) <= connected[s][u]

\* As the product opens sessions, each editor is counted once and given back when its
\* session closes.  A session that became an editor and was attached as well would be
\* counted twice and given back once; nothing in the product does that.
EditorsMatchSessions ==
    \A s \in Service, u \in User : connected[s][u] = Cardinality(EditorsOf(s, u))

\* No limit is passed: sessions of a user and of an organization, connections of a
\* service with its permits, editors of a user there.
SessionsWithinQuota ==
    /\ \A u \in User : userLogical[u] <= UserSessions
    /\ \A o \in Organization : orgLogical[o] <= OrgSessions
    /\ \A s \in Service : /\ physical[s] + inHand[s] <= Connections
                          /\ \A u \in User : connected[s][u] <= UserEditors

================================================================================
